---- MODULE Spec2Model ----
(***************************************************************************)
(* Mojo wire-format bindings (mojo/public/rust/bindings/mojom.rs): the     *)
(* encodability contract, the container encode/decode protocols and the    *)
(* root-struct serialize/deserialize entry points, as a state machine      *)
(* over one message: a value is serialized, the message may be altered in  *)
(* transit, and it is deserialized.                                        *)
(*                                                                         *)
(* Values: a primitive is its number, a bool a BOOLEAN, a handle its       *)
(* native identity, Option<T> is <<>> (None) or <<x>> (Some), arrays and   *)
(* strings are sequences, a HashMap is the sequence of its (key, value)    *)
(* pairs in the map's iteration order, StructA is [param0 |-> field].      *)
(*                                                                         *)
(* StructA is the root struct of tests/regression.rs, one field param0 in  *)
(* a 16-byte region at version 0. The source declares the field as [T; 3]; *)
(* the model lets the field's type be a parameter, [T; 3] among the types  *)
(* it ranges over, so that every container can be serialized under a root. *)
(***************************************************************************)
EXTENDS Integers, Sequences, FiniteSets, TLC

VARIABLES pc, alt, ty, val, buffer, handles, elog, res, dlog, open, vt, mp, bp

\* The variables of the serialize/deserialize machine, and those of the
\* machines stated apart from it (the versions of a struct, the messages of
\* an interface, the packing of bools).
main == <<pc, alt, ty, val, buffer, handles, elog, res, dlog, open>>
aux == <<vt, mp, bp>>
vars == <<main, aux>>

\* ------------------------------------------------------------------------
\* Bounds of the model
\* ------------------------------------------------------------------------
MaxLen == 2
MaxVersion == 2
MaxInterfaceVersion == 2
MaxBools == 9

\* ------------------------------------------------------------------------
\* Program constants
\* ------------------------------------------------------------------------
MAP_SIZE == 24
POINTER_BIT_SIZE == 64
MOJOM_NULL_POINTER == 0
DATA_HEADER_SIZE == 8
STRUCT_A_SIZE == 16
STRUCT_A_ARITY == 3
UNION_SIZE == 16
UNION_NESTED_EMBED_SIZE == POINTER_BIT_SIZE
UNION_INLINE_EMBED_SIZE == 8 * UNION_SIZE

\* The version tables: sequences of <<version, size>>.
MAP_VERSIONS == << <<0, MAP_SIZE>> >>
STRUCT_A_VERSIONS == << <<0, STRUCT_A_SIZE>> >>

\* Numbers read from the wire are kept exact below Huge and saturate at Huge:
\* every buffer of the model is far shorter, so a saturated offset, size or
\* count is past the end exactly when the real one is.
Huge == 256 * 256

\* ------------------------------------------------------------------------
\* Type descriptors
\* ------------------------------------------------------------------------
U8 == [k |-> "prim", w |-> 1]
U32 == [k |-> "prim", w |-> 4]
Bool == [k |-> "bool"]
UntypedHandle == [k |-> "handle"]
\* An interface: a message pipe handle h and the version of the interface.
Interface == [k |-> "iface"]
Str == [k |-> "string"]
Opt(t) == [k |-> "opt", e |-> t]
Vec(t) == [k |-> "vec", e |-> t]
BoxSlice(t) == [k |-> "box", e |-> t]
Arr(t, n) == [k |-> "arr", e |-> t, n |-> n]
Map(kt, valt) == [k |-> "map", key |-> kt, val |-> valt]
StructA(t) == [k |-> "struct", f |-> t]

\* A union type is the sequence of its variants' types; the variant at place i
\* has tag i - 1.
\* UnionB has one u8 variant; UnionA a bool variant and a UnionB variant.
Union(vs) == [k |-> "union", vs |-> vs]
UnionB == Union(<<U8>>)
UnionA == Union(<<Bool, UnionB>>)

IsArrayKind(t) == t.k \in {"vec", "box", "arr"}

\* Context::default() and the contexts handed out by Encoder::add / Decoder::claim.
Context(off) == [offset |-> off, is_union |-> FALSE]
DefaultContext == Context(0)
set_is_union(ctx, b) == [ctx EXCEPT !.is_union = b]

\* A union value holds its tag and, in the field of that variant, the value.
UnionOf(tag, x) == IF tag = 0 THEN [tag |-> 0, v0 |-> x] ELSE [tag |-> 1, v1 |-> x]
Held(v) == IF v.tag = 0 THEN v.v0 ELSE v.v1

\* ------------------------------------------------------------------------
\* Bit/byte helpers
\* ------------------------------------------------------------------------
AsBytes(bits) == (bits + 7) \div 8

align_default(n) == ((n + 7) \div 8) * 8

align_bytes(n, a) == ((n + a - 1) \div a) * a

Min(a, b) == IF a < b THEN a ELSE b

\* Little-endian bytes of n in w bytes (two's complement for n < 0).
LE(n, w) ==
  [i \in 1..w |-> IF i <= 4 THEN (n \div (256 ^ (i - 1))) % 256
                  ELSE IF n < 0 THEN 255 ELSE 0]

\* Unsigned little-endian number of the bytes bs, saturated at Huge.
FromLE(bs) ==
  IF \E i \in 3..Len(bs) : bs[i] # 0 THEN Huge
  ELSE bs[1] + (IF Len(bs) >= 2 THEN 256 * bs[2] ELSE 0)

\* Signed 32-bit little-endian number of four bytes (exact).
FromLEi32(bs) ==
  bs[1] + 256 * bs[2] + 65536 * bs[3]
    + 16777216 * (IF bs[4] >= 128 THEN bs[4] - 256 ELSE bs[4])

RECURSIVE SumSeq(_)
SumSeq(s) == IF s = <<>> THEN 0 ELSE Head(s) + SumSeq(Tail(s))

\* ------------------------------------------------------------------------
\* MojomEncodable: category, alignment, embed_size
\* ------------------------------------------------------------------------
RECURSIVE mojom_type(_)
mojom_type(t) ==
  CASE t.k \in {"prim", "bool"} -> "Simple"
    [] t.k = "handle" -> "Handle"
    [] t.k = "iface" -> "Interface"
    [] t.k = "union" -> "Union"
    [] t.k = "opt" -> mojom_type(t.e)
    [] OTHER -> "Pointer"

RECURSIVE embed_size(_, _)
embed_size(t, ctx) ==
  CASE t.k = "prim" -> 8 * t.w
    [] t.k = "bool" -> 1
    [] t.k = "handle" -> 8 * 4
    [] t.k = "iface" -> 8 * 8
    [] t.k = "union" ->
         IF ctx.is_union THEN UNION_NESTED_EMBED_SIZE ELSE UNION_INLINE_EMBED_SIZE
    [] t.k = "opt" -> embed_size(t.e, ctx)
    [] OTHER -> POINTER_BIT_SIZE

\* ------------------------------------------------------------------------
\* MojomPointer: header_data, serialized_size
\* ------------------------------------------------------------------------
\* serialized_size of an array with every element rounded up to whole bytes.
ArraySerializedSize_WholeBytes(t, v, ctx) ==
  DATA_HEADER_SIZE + AsBytes(embed_size(t.e, ctx)) * Len(v)

ArraySerializedSize(t, v, ctx) ==
  DATA_HEADER_SIZE
    + (IF Len(v) > 0 THEN AsBytes(embed_size(t.e, ctx) * Len(v)) ELSE 0)

\* serialized_size of a String counting a terminating byte after its bytes.
StringSerializedSize_Terminated(v) == DATA_HEADER_SIZE + Len(v) + 1

StringSerializedSize(v) == DATA_HEADER_SIZE + Len(v)

serialized_size(t, v, ctx) ==
  CASE IsArrayKind(t) -> ArraySerializedSize(t, v, ctx)
    [] t.k = "string" -> StringSerializedSize(v)
    [] t.k = "map" -> MAP_SIZE
    [] t.k = "struct" -> STRUCT_A_SIZE

header_data(t, v) ==
  CASE IsArrayKind(t) -> Len(v)
    [] t.k = "string" -> Len(v)
    [] t.k = "map" -> 0
    [] t.k = "struct" -> 0

\* ------------------------------------------------------------------------
\* compute_size
\* ------------------------------------------------------------------------
RECURSIVE compute_size(_, _, _)

ArrayComputeSize(t, v, ctx) ==
  align_default(ArraySerializedSize(t, v, ctx))
    + SumSeq([i \in 1..Len(v) |-> compute_size(t.e, v[i], ctx)])

StringComputeSize(v) == align_default(StringSerializedSize(v))

\* HashMap::compute_size with the alignments after the keys array and after
\* the keys' children left out: only the total is aligned.
HashMapComputeSize_TotalOnly(t, v, ctx) ==
  align_default(
    MAP_SIZE
      + DATA_HEADER_SIZE + AsBytes(embed_size(t.key, ctx) * Len(v))
      + SumSeq([i \in 1..Len(v) |-> compute_size(t.key, v[i][1], ctx)])
      + DATA_HEADER_SIZE + AsBytes(embed_size(t.val, ctx) * Len(v))
      + SumSeq([i \in 1..Len(v) |-> compute_size(t.val, v[i][2], ctx)]))

HashMapComputeSize(t, v, ctx) ==
  LET s1 == align_default(MAP_SIZE)
      s2 == align_default(s1 + DATA_HEADER_SIZE
                             + AsBytes(embed_size(t.key, ctx) * Len(v)))
      s3 == align_default(
              s2 + SumSeq([i \in 1..Len(v) |-> compute_size(t.key, v[i][1], ctx)]))
      s4 == align_default(s3 + DATA_HEADER_SIZE
                             + AsBytes(embed_size(t.val, ctx) * Len(v)))
      s5 == s4 + SumSeq([i \in 1..Len(v) |-> compute_size(t.val, v[i][2], ctx)])
  IN  align_default(s5)

StructAComputeSize(t, v, ctx) ==
  align_default(STRUCT_A_SIZE) + compute_size(t.f, v.param0, ctx)

\* compute_size of a union: its variant's external bytes, and the 16-byte
\* region of its own when it is nested.
UnionComputeSize(t, v, ctx) ==
  (IF ctx.is_union THEN align_default(UNION_SIZE) ELSE 0)
    + compute_size(t.vs[v.tag + 1], Held(v), set_is_union(ctx, TRUE))

OptionComputeSize(t, v, ctx) ==
  IF Len(v) = 0 THEN 0 ELSE compute_size(t.e, v[1], ctx)

compute_size(t, v, ctx) ==
  CASE t.k \in {"prim", "bool", "handle", "iface"} -> 0
    [] t.k = "opt" -> OptionComputeSize(t, v, ctx)
    [] t.k = "union" -> UnionComputeSize(t, v, ctx)
    [] IsArrayKind(t) -> ArrayComputeSize(t, v, ctx)
    [] t.k = "string" -> StringComputeSize(v)
    [] t.k = "map" -> HashMapComputeSize(t, v, ctx)
    [] t.k = "struct" -> StructAComputeSize(t, v, ctx)

\* ------------------------------------------------------------------------
\* Encoder and EncodingState
\*   enc: [buf, bytes, handles, regions, ptrs, failed]
\*     buf      the caller's buffer (1-based; wire offset o is buf[o + 1])
\*     bytes    the write head: end of the last region reserved
\*     handles  the handle vector
\*     regions  log of the regions reserved by add: [off, size]
\*     ptrs     log of the non-null pointers written: [loc, target]
\*     unions   log of the unions encoded: [nested, base, from, to, bit];
\*              from and to are the region cursor before and after
\*     cursors  log of the region cursor after each value written: [base,
\*              size, pos, bit]
\*     ends     log of the region cursor when the encode_value of a region
\*              returned: [off, k, bits, pos, bit], k the kind of the value
\*              and bits the inline bits of one element of an array
\*     failed   add ran out of buffer, or a write left its region (a panic)
\*   st:  [base, size, pos, bit]  cursor of one region
\* ------------------------------------------------------------------------
EncoderNew(len) ==
  [buf |-> [i \in 1..len |-> 0], bytes |-> 0, handles |-> <<>>,
   regions |-> <<>>, ptrs |-> <<>>, unions |-> <<>>, cursors |-> <<>>,
   ends |-> <<>>, failed |-> FALSE]

\* Bytes bs written at wire offset at.
WriteAt(buf, at, bs) ==
  [i \in 1..Len(buf) |->
     IF i > at /\ i <= at + Len(bs) THEN bs[i - at] ELSE buf[i]]

\* Encoder::add without step 1: the region starts at the write head as it is.
EncoderAdd_Unaligned(enc, size, hdata) ==
  LET off == enc.bytes
  IN  IF enc.failed \/ off + size > Len(enc.buf)
      THEN [enc |-> [enc EXCEPT !.failed = TRUE], offset |-> off,
            st |-> [base |-> off, size |-> size, pos |-> DATA_HEADER_SIZE, bit |-> 0],
            ctx |-> Context(off)]
      ELSE [enc |-> [enc EXCEPT
                       !.buf = WriteAt(enc.buf, off, LE(size, 4) \o LE(hdata, 4)),
                       !.bytes = off + size,
                       !.regions = Append(@, [off |-> off, size |-> size])],
            offset |-> off,
            st |-> [base |-> off, size |-> size, pos |-> DATA_HEADER_SIZE, bit |-> 0],
            ctx |-> Context(off)]

EncoderAdd(enc, size, hdata) ==
  LET off == align_default(enc.bytes)
  IN  IF enc.failed \/ off + size > Len(enc.buf)
      THEN [enc |-> [enc EXCEPT !.failed = TRUE], offset |-> off,
            st |-> [base |-> off, size |-> size, pos |-> DATA_HEADER_SIZE, bit |-> 0],
            ctx |-> Context(off)]
      ELSE [enc |-> [enc EXCEPT
                       !.buf = WriteAt(enc.buf, off, LE(size, 4) \o LE(hdata, 4)),
                       !.bytes = off + size,
                       !.regions = Append(@, [off |-> off, size |-> size])],
            offset |-> off,
            st |-> [base |-> off, size |-> size, pos |-> DATA_HEADER_SIZE, bit |-> 0],
            ctx |-> Context(off)]

EncoderAddHandle(enc, h) ==
  [enc |-> [enc EXCEPT !.handles = Append(@, h)], pos |-> Len(enc.handles)]

StAlignToByte(st) ==
  IF st.bit > 0 THEN [st EXCEPT !.pos = @ + 1, !.bit = 0] ELSE st

StAlignToBytes(st, n) == [st EXCEPT !.pos = align_bytes(@, n)]

\* EncodingState::encode<T>(v) for a primitive of w bytes.
StEncode(enc, st, n, w) ==
  LET s1 == StAlignToBytes(StAlignToByte(st), w)
  IN  IF enc.failed \/ s1.pos + w > s1.size
      THEN [enc |-> [enc EXCEPT !.failed = TRUE], st |-> s1]
      ELSE [enc |-> [enc EXCEPT !.buf = WriteAt(@, s1.base + s1.pos, LE(n, w)),
                                !.cursors = Append(@, [s1 EXCEPT !.pos = @ + w])],
            st |-> [s1 EXCEPT !.pos = @ + w]]

\* encode_bool filling each byte from its high bit down.
StEncodeBool_HighBitFirst(enc, st, b) ==
  IF enc.failed \/ st.pos + 1 > st.size
  THEN [enc |-> [enc EXCEPT !.failed = TRUE], st |-> st]
  ELSE LET at == st.base + st.pos + 1
           byte == enc.buf[at] + (IF b THEN 2 ^ (7 - st.bit) ELSE 0)
           s1 == IF st.bit = 7 THEN [st EXCEPT !.pos = @ + 1, !.bit = 0]
                 ELSE [st EXCEPT !.bit = @ + 1]
       IN  [enc |-> [enc EXCEPT !.buf[at] = byte, !.cursors = Append(@, s1)],
            st |-> s1]

StEncodeBool(enc, st, b) ==
  IF enc.failed \/ st.pos + 1 > st.size
  THEN [enc |-> [enc EXCEPT !.failed = TRUE], st |-> st]
  ELSE LET at == st.base + st.pos + 1
           byte == enc.buf[at] + (IF b THEN 2 ^ st.bit ELSE 0)
           s1 == IF st.bit = 7 THEN [st EXCEPT !.pos = @ + 1, !.bit = 0]
                 ELSE [st EXCEPT !.bit = @ + 1]
       IN  [enc |-> [enc EXCEPT !.buf[at] = byte, !.cursors = Append(@, s1)],
            st |-> s1]

StEncodePointer(enc, st, target) ==
  LET Log(r, loc) ==
        IF target = MOJOM_NULL_POINTER \/ r.enc.failed THEN r
        ELSE [r EXCEPT !.enc.ptrs = Append(@, [loc |-> loc, target |-> target])]
      At(s1, loc) ==
        Log(StEncode(enc, s1,
                     IF target = MOJOM_NULL_POINTER THEN 0 ELSE target - loc, 8),
            loc)
      Aligned(s1) == At(s1, s1.base + s1.pos)
  IN  Aligned(StAlignToBytes(StAlignToByte(st), 8))

StEncodeNullPointer(enc, st) == StEncode(enc, st, MOJOM_NULL_POINTER, 8)

StEncodeNullHandle(enc, st) == StEncode(enc, st, -1, 4)

\* The null interface of Option::encode: the null handle, then version 0.
StEncodeNullInterface(enc, st) ==
  LET Version(r) == IF r.enc.failed THEN r ELSE StEncode(r.enc, r.st, 0, 4)
  IN  Version(StEncodeNullHandle(enc, st))

\* encode_null_union: 16 zero bytes.
StEncodeNullUnion(enc, st) ==
  LET Second(r) == IF r.enc.failed THEN r ELSE StEncode(r.enc, r.st, 0, 8)
  IN  Second(StEncode(enc, st, 0, 8))

\* ------------------------------------------------------------------------
\* encode
\* ------------------------------------------------------------------------
RECURSIVE Encode(_, _, _, _, _)
RECURSIVE EncodeSeq(_, _, _, _, _, _)
RECURSIVE encode_new(_, _, _, _)

\* The cursor st of the region at off, as the encode_value of a value of kind k
\* left it.
LogEnd(enc, off, k, bits, st) ==
  IF enc.failed THEN enc
  ELSE [enc EXCEPT !.ends = Append(@, [off |-> off, k |-> k, bits |-> bits,
                                       pos |-> st.pos, bit |-> st.bit])]

\* The element loop of the array and string encode_value: elements i..Len(vs)
\* of vs, in order, into the one region state.
EncodeSeq(et, vs, i, enc, st, ctx) ==
  IF i > Len(vs) THEN [enc |-> enc, st |-> st]
  ELSE LET Rest(r) ==
             IF r.enc.failed THEN r ELSE EncodeSeq(et, vs, i + 1, r.enc, r.st, ctx)
       IN  Rest(Encode(et, vs[i], enc, st, ctx))

VecEncodeValue(t, v, enc, st, ctx) == EncodeSeq(t.e, v, 1, enc, st, ctx)

StringEncodeValue(v, enc, st, ctx) == EncodeSeq(U8, v, 1, enc, st, ctx)

\* HashMap::encode_value with the keys pointer aimed at the map's own region
\* (context.offset) instead of the keys region just reserved.
HashMapEncodeValue_KeysAtSelf(t, v, enc, st, ctx) ==
  LET elems == Len(v)
      keys_bytes == DATA_HEADER_SIZE + AsBytes(embed_size(t.key, ctx) * elems)
      vals_vec == [i \in 1..elems |-> v[i][2]]
      Vals(ks, p) ==
        IF ks.enc.failed THEN [enc |-> ks.enc, st |-> p.st]
        ELSE Encode(Vec(t.val), vals_vec, ks.enc, p.st, ctx)
      Keys(a, p) ==
        IF p.enc.failed THEN p
        ELSE (LET Ended(ks) ==
                    [enc |-> LogEnd(ks.enc, a.offset, "keys",
                                    embed_size(t.key, ctx), ks.st),
                     st |-> ks.st]
              IN  Vals(Ended(EncodeSeq(t.key, [i \in 1..elems |-> v[i][1]], 1,
                                       p.enc, a.st, a.ctx)), p))
      KeysPointer(a) ==
        IF a.enc.failed THEN [enc |-> a.enc, st |-> st]
        ELSE Keys(a, StEncodePointer(a.enc, st, ctx.offset))
  IN  KeysPointer(EncoderAdd(enc, keys_bytes, elems))

\* HashMap::encode_value with the values pushed to the front of vals_vec: the
\* values array is in the reverse of the keys' order.
HashMapEncodeValue_ValsReversed(t, v, enc, st, ctx) ==
  LET elems == Len(v)
      keys_bytes == DATA_HEADER_SIZE + AsBytes(embed_size(t.key, ctx) * elems)
      vals_vec == [i \in 1..elems |-> v[elems + 1 - i][2]]
      Vals(ks, p) ==
        IF ks.enc.failed THEN [enc |-> ks.enc, st |-> p.st]
        ELSE Encode(Vec(t.val), vals_vec, ks.enc, p.st, ctx)
      Keys(a, p) ==
        IF p.enc.failed THEN p
        ELSE (LET Ended(ks) ==
                    [enc |-> LogEnd(ks.enc, a.offset, "keys",
                                    embed_size(t.key, ctx), ks.st),
                     st |-> ks.st]
              IN  Vals(Ended(EncodeSeq(t.key, [i \in 1..elems |-> v[i][1]], 1,
                                       p.enc, a.st, a.ctx)), p))
      KeysPointer(a) ==
        IF a.enc.failed THEN [enc |-> a.enc, st |-> st]
        ELSE Keys(a, StEncodePointer(a.enc, st, a.offset))
  IN  KeysPointer(EncoderAdd(enc, keys_bytes, elems))

HashMapEncodeValue(t, v, enc, st, ctx) ==
  LET elems == Len(v)
      keys_bytes == DATA_HEADER_SIZE + AsBytes(embed_size(t.key, ctx) * elems)
      vals_vec == [i \in 1..elems |-> v[i][2]]
      \* Encode vals: the values vector, through the map's own region state
      Vals(ks, p) ==
        IF ks.enc.failed THEN [enc |-> ks.enc, st |-> p.st]
        ELSE Encode(Vec(t.val), vals_vec, ks.enc, p.st, ctx)
      \* Encode keys, into the keys region
      Keys(a, p) ==
        IF p.enc.failed THEN p
        ELSE (LET Ended(ks) ==
                    [enc |-> LogEnd(ks.enc, a.offset, "keys",
                                    embed_size(t.key, ctx), ks.st),
                     st |-> ks.st]
              IN  Vals(Ended(EncodeSeq(t.key, [i \in 1..elems |-> v[i][1]], 1,
                                       p.enc, a.st, a.ctx)), p))
      \* the keys pointer, written once the keys region is reserved
      KeysPointer(a) ==
        IF a.enc.failed THEN [enc |-> a.enc, st |-> st]
        ELSE Keys(a, StEncodePointer(a.enc, st, a.offset))
  IN  KeysPointer(EncoderAdd(enc, keys_bytes, elems))

StructAEncodeValue(t, v, enc, st, ctx) == Encode(t.f, v.param0, enc, st, ctx)

encode_value(t, v, enc, st, ctx) ==
  CASE IsArrayKind(t) -> VecEncodeValue(t, v, enc, st, ctx)
    [] t.k = "string" -> StringEncodeValue(v, enc, st, ctx)
    [] t.k = "map" -> HashMapEncodeValue(t, v, enc, st, ctx)
    [] t.k = "struct" -> StructAEncodeValue(t, v, enc, st, ctx)

encode_new(t, v, enc, ctx) ==
  LET data_size == serialized_size(t, v, ctx)
      Value(a) ==
        IF a.enc.failed THEN [enc |-> a.enc, offset |-> a.offset]
        ELSE (LET Ended(r) ==
                    [enc |-> LogEnd(r.enc, a.offset, t.k,
                                    IF IsArrayKind(t) THEN embed_size(t.e, ctx)
                                    ELSE IF t.k = "string" THEN embed_size(U8, ctx)
                                    ELSE 0,
                                    r.st),
                     offset |-> a.offset]
              IN  Ended(encode_value(t, v, a.enc, a.st, a.ctx)))
  IN  Value(EncoderAdd(enc, data_size, header_data(t, v)))

\* impl_encodable_for_pointer!: encode (the region, then the inline pointer).
PointerEncode(t, v, enc, st, ctx) ==
  LET Pointer(r) ==
        IF r.enc.failed THEN [enc |-> r.enc, st |-> st]
        ELSE StEncodePointer(r.enc, st, r.offset)
  IN  Pointer(encode_new(t, v, enc, ctx))

\* Handle encode writing the length of the handle vector after the push
\* instead of the position add_handle returned.
HandleEncode_IndexAfterPush(v, enc, st) ==
  LET a == EncoderAddHandle(enc, v)
  IN  StEncode(a.enc, st, a.pos + 1, 4)

HandleEncode(v, enc, st) ==
  LET a == EncoderAddHandle(enc, v)
  IN  StEncode(a.enc, st, a.pos, 4)

\* MojomEncodable::encode of an interface: the pipe's handle as a handle, then
\* the version.
InterfaceEncode(v, enc, st) ==
  LET Version(r) == IF r.enc.failed THEN r ELSE StEncode(r.enc, r.st, v.version, 4)
  IN  Version(HandleEncode(v.h, enc, st))

\* MojomUnion::get_tag and MojomUnion::encode_value of a union: the variant
\* held, encoded where the union's payload is, under a union context.
get_tag(v) == v.tag

UnionEncodeValue(t, v, enc, st, ctx) ==
  Encode(t.vs[v.tag + 1], Held(v), enc, st, set_is_union(ctx, TRUE))

LogUnion(r, nested, base, from, tag) ==
  IF r.enc.failed THEN r
  ELSE [r EXCEPT !.enc.unions =
          Append(@, [nested |-> nested, base |-> base, from |-> from,
                     to |-> r.st.pos, bit |-> r.st.bit, tag |-> tag])]

encode_union_nested(t, v, enc, st, ctx) ==
  LET Value(p, a) ==
        IF p.enc.failed THEN p
        ELSE [enc |-> UnionEncodeValue(t, v, p.enc, a.st,
                                       set_is_union(a.ctx, TRUE)).enc,
              st |-> p.st]
      Pointer(a) ==
        IF a.enc.failed THEN [enc |-> a.enc, st |-> st]
        ELSE Value(StEncodePointer(a.enc, st, a.offset), a)
  IN  LogUnion(Pointer(EncoderAdd(enc, UNION_SIZE, get_tag(v))),
               TRUE, st.base, StAlignToBytes(StAlignToByte(st), 8).pos, get_tag(v))

encode_union_inline(t, v, enc, st, ctx) ==
  LET Aligned(r) ==
        [enc |-> r.enc, st |-> StAlignToByte(StAlignToBytes(r.st, 8))]
      Value(r) ==
        IF r.enc.failed THEN r
        ELSE Aligned(UnionEncodeValue(t, v, r.enc, r.st, ctx))
      Tag(r) == IF r.enc.failed THEN r ELSE Value(StEncode(r.enc, r.st, get_tag(v), 4))
  IN  LogUnion(Tag(StEncode(enc, StAlignToBytes(st, 8), UNION_SIZE, 4)),
               FALSE, st.base, StAlignToBytes(st, 8).pos, get_tag(v))

\* MojomEncodable::encode of a union: by pointer inside a union, in place
\* anywhere else.
UnionEncode(t, v, enc, st, ctx) ==
  IF ctx.is_union THEN encode_union_nested(t, v, enc, st, ctx)
  ELSE encode_union_inline(t, v, enc, st, ctx)

\* Option::encode writing the null pointer for None whatever the category.
OptionEncode_NullPointerAlways(t, v, enc, st, ctx) ==
  IF Len(v) > 0 THEN Encode(t.e, v[1], enc, st, ctx)
  ELSE StEncodeNullPointer(enc, st)

OptionEncode(t, v, enc, st, ctx) ==
  IF Len(v) > 0 THEN Encode(t.e, v[1], enc, st, ctx)
  ELSE CASE mojom_type(t.e) = "Pointer" -> StEncodeNullPointer(enc, st)
         [] mojom_type(t.e) = "Union" -> StEncodeNullUnion(enc, st)
         [] mojom_type(t.e) = "Handle" -> StEncodeNullHandle(enc, st)
         [] mojom_type(t.e) = "Interface" -> StEncodeNullInterface(enc, st)
         [] OTHER -> [enc |-> [enc EXCEPT !.failed = TRUE], st |-> st]

Encode(t, v, enc, st, ctx) ==
  CASE t.k = "prim" -> StEncode(enc, st, v, t.w)
    [] t.k = "bool" -> StEncodeBool(enc, st, v)
    [] t.k = "handle" -> HandleEncode(v, enc, st)
    [] t.k = "iface" -> InterfaceEncode(v, enc, st)
    [] t.k = "union" -> UnionEncode(t, v, enc, st, ctx)
    [] t.k = "opt" -> OptionEncode(t, v, enc, st, ctx)
    [] OTHER -> PointerEncode(t, v, enc, st, ctx)

\* MojomStruct::serialize / auto_serialize: the encoder after the root was
\* encoded into a zeroed buffer of compute_size bytes.
serialize(t, v, len) == encode_new(t, v, EncoderNew(len), DefaultContext).enc

auto_serialize(t, v) == serialize(t, v, compute_size(t, v, DefaultContext))

\* ------------------------------------------------------------------------
\* Handles owned by a value, in the order encode hands them to the encoder
\* ------------------------------------------------------------------------
RECURSIVE HandleSeq(_, _)
RECURSIVE HandleSeqAll(_, _, _)
HandleSeqAll(et, vs, i) ==
  IF i > Len(vs) THEN <<>>
  ELSE HandleSeq(et, vs[i]) \o HandleSeqAll(et, vs, i + 1)

HandleSeq(t, v) ==
  CASE t.k = "handle" -> <<v>>
    [] t.k = "iface" -> <<v.h>>
    [] t.k = "union" -> HandleSeq(t.vs[v.tag + 1], Held(v))
    [] t.k = "opt" -> IF Len(v) = 0 THEN <<>> ELSE HandleSeq(t.e, v[1])
    [] IsArrayKind(t) -> HandleSeqAll(t.e, v, 1)
    [] t.k = "map" ->
         HandleSeqAll(t.key, [i \in 1..Len(v) |-> v[i][1]], 1)
           \o HandleSeqAll(t.val, [i \in 1..Len(v) |-> v[i][2]], 1)
    [] t.k = "struct" -> HandleSeq(t.f, v.param0)
    [] OTHER -> <<>>

Range(s) == {s[i] : i \in 1..Len(s)}

HandleSet(t, v) == Range(HandleSeq(t, v))

\* ------------------------------------------------------------------------
\* Decoder and DecoderState
\*   dec: [buf, handles, slots, claimed, cur, attempts, visited, maps,
\*         dropped, leaked, panic]
\*     slots     indices of the handle vector already claimed
\*     claimed   regions claimed: [off, size]
\*     cur       cursor of each claimed region: off -> [pos, bit]
\*     attempts  log of the claim calls: [off, ok]
\*     visited   log of the region offsets whose data header was decoded
\*     maps      log of the element counts each map decode compared
\*     hreads    log of the handle indices decoded
\*     unions    log of the unions decoded: [nested, base, from, to, bit]
\*     trace     log, in the order they happened, of the decode calls
\*               ("decode"), the claims of a region ("claim") and of a handle
\*               ("claim_handle"), and the errors raised ("error", with the
\*               error)
\*     skips     log of the skip_if_null_* calls: [base, cat, pos, bit,
\*               skipped, pos1, bit1], the cursor of the region before the
\*               call (pos, bit) and after it (pos1, bit1)
\*     dropped   handles closed by dropping a partly decoded aggregate
\*     leaked    handles in aggregates that were left without being dropped
\*     panic     the decode panicked
\* ------------------------------------------------------------------------
DecoderNew(buf, hs) ==
  [buf |-> buf, handles |-> hs, slots |-> {}, claimed |-> <<>>,
   cur |-> <<>>, attempts |-> <<>>, visited |-> <<>>, maps |-> <<>>,
   hreads |-> <<>>, unions |-> <<>>, trace |-> <<>>, skips |-> <<>>,
   dropped |-> {}, leaked |-> {}, panic |-> FALSE]

Did(dec, what) ==
  [dec EXCEPT !.trace = Append(@, [what |-> what, err |-> "none"])]

\* Ok(v); Err(e) where the error e is raised; and the Err(err) that returns to
\* the caller an error raised further in.
Ok(dec, v) == [dec |-> dec, ok |-> TRUE, v |-> v, err |-> "none"]
Err(dec, e) ==
  [dec |-> [dec EXCEPT !.trace = Append(@, [what |-> "error", err |-> e])],
   ok |-> FALSE, v |-> <<>>, err |-> e]
Return(dec, e) == [dec |-> dec, ok |-> FALSE, v |-> <<>>, err |-> e]

\* The w bytes at wire offset at; a read past the end of the buffer is a panic.
InBuf(dec, at, w) == at >= 0 /\ at + w <= Len(dec.buf)
ReadAt(dec, at, w) ==
  [i \in 1..w |-> IF InBuf(dec, at, w) THEN dec.buf[at + i] ELSE 0]

Overlaps(dec, off, size) ==
  \E i \in 1..Len(dec.claimed) :
     LET c == dec.claimed[i]
     IN  \/ (c.off <= off /\ off < c.off + c.size)
         \/ (off <= c.off /\ c.off < off + size)

CursorOf(dec, off) ==
  IF \E i \in 1..Len(dec.cur) : dec.cur[i].off = off
  THEN (CHOOSE c \in Range(dec.cur) : c.off = off)
  ELSE [off |-> off, pos |-> 0, bit |-> 0]

SetCursor(dec, c) ==
  IF \E i \in 1..Len(dec.cur) : dec.cur[i].off = c.off
  THEN [dec EXCEPT !.cur = [i \in 1..Len(@) |-> IF @[i].off = c.off THEN c ELSE @[i]]]
  ELSE [dec EXCEPT !.cur = Append(@, c)]

DecoderClaim(dec, offset) ==
  LET size == FromLE(ReadAt(dec, offset, 4))
  IN  IF \/ offset % 8 # 0
         \/ offset + DATA_HEADER_SIZE > Len(dec.buf)
         \/ offset + size > Len(dec.buf)
         \/ Overlaps(dec, offset, size)
      THEN Err(Did([dec EXCEPT !.attempts = Append(@, [off |-> offset, ok |-> FALSE])],
                   "claim"),
               "IllegalPointer")
      ELSE Ok(SetCursor(Did([dec EXCEPT
                               !.attempts = Append(@, [off |-> offset, ok |-> TRUE]),
                               !.claimed = Append(@, [off |-> offset, size |-> size])],
                            "claim"),
                        [off |-> offset, pos |-> 0, bit |-> 0]),
              Context(offset))

DecoderClaimHandle(dec, index) ==
  IF index < 0 THEN Err(Did(dec, "claim_handle"), "UnexpectedNullPointer")
  ELSE IF index >= Len(dec.handles) \/ index \in dec.slots
  THEN Err(Did(dec, "claim_handle"), "IllegalHandle")
  ELSE Ok(Did([dec EXCEPT !.slots = @ \cup {index}], "claim_handle"),
          dec.handles[index + 1])

DsAlign(c, n) ==
  LET p == IF c.bit > 0 THEN c.pos + 1 ELSE c.pos
  IN  [c EXCEPT !.pos = align_bytes(p, n), !.bit = 0]

\* DecoderState::decode<T>() for a primitive of w bytes: the bytes read.
DsDecode(dec, ctx, w) ==
  LET c == DsAlign(CursorOf(dec, ctx.offset), w)
      at == ctx.offset + c.pos
      d1 == SetCursor(dec, [c EXCEPT !.pos = @ + w])
  IN  [dec |-> IF InBuf(dec, at, w) THEN d1 ELSE [d1 EXCEPT !.panic = TRUE],
       bytes |-> ReadAt(dec, at, w)]

\* n consecutive decode::<u8>() calls: the bytes read.
DsDecodeBytes(dec, ctx, n) ==
  LET c == DsAlign(CursorOf(dec, ctx.offset), 1)
      at == ctx.offset + c.pos
      d1 == SetCursor(dec, [c EXCEPT !.pos = @ + n])
  IN  [dec |-> IF InBuf(dec, at, n) THEN d1 ELSE [d1 EXCEPT !.panic = TRUE],
       bytes |-> IF InBuf(dec, at, n) THEN ReadAt(dec, at, n) ELSE <<>>]

DsDecodeBool(dec, ctx) ==
  LET c == CursorOf(dec, ctx.offset)
      at == ctx.offset + c.pos
      byte == ReadAt(dec, at, 1)[1]
      c1 == IF c.bit = 7 THEN [c EXCEPT !.pos = @ + 1, !.bit = 0]
            ELSE [c EXCEPT !.bit = @ + 1]
      d1 == SetCursor(dec, c1)
  IN  [dec |-> IF InBuf(dec, at, 1) THEN d1 ELSE [d1 EXCEPT !.panic = TRUE],
       v |-> (byte \div (2 ^ c.bit)) % 2 = 1]

\* DecoderState::decode_pointer: Some(0) for the null pointer, Some(location +
\* offset) otherwise; None when that sum overflows 64 bits, which no pointer
\* stored in the low bytes of the field can do.
DsDecodePointer(dec, ctx) ==
  LET Read(r, loc, rel) ==
        [dec |-> r.dec, some |-> TRUE,
         ptr |-> IF rel = MOJOM_NULL_POINTER THEN MOJOM_NULL_POINTER
                 ELSE Min(loc + rel, Huge)]
      At(r, loc) == Read(r, loc, FromLE(r.bytes))
  IN  At(DsDecode(dec, ctx, 8),
         ctx.offset + DsAlign(CursorOf(dec, ctx.offset), 8).pos)

DsDecodeHeader(dec, ctx) ==
  LET Data(a, b) ==
        [dec |-> [b.dec EXCEPT !.visited = Append(@, ctx.offset)],
         size |-> FromLE(a.bytes), data |-> FromLE(b.bytes)]
      Size(a) == Data(a, DsDecode(a.dec, ctx, 4))
  IN  Size(DsDecode(dec, ctx, 4))

\* decode_struct_header looking only for the version in the table.
DsDecodeStructHeader_VersionOnly(dec, ctx, versions) ==
  LET Check(h) ==
        IF \E i \in 1..Len(versions) : versions[i][1] = h.data
        THEN Ok(h.dec, h.data)
        ELSE Err(h.dec, "UnexpectedStructHeader")
  IN  Check(DsDecodeHeader(dec, ctx))

DsDecodeStructHeader(dec, ctx, versions) ==
  LET Check(h) ==
        IF \E i \in 1..Len(versions) :
              versions[i][1] = h.data /\ versions[i][2] = h.size
        THEN Ok(h.dec, h.data)
        ELSE Err(h.dec, "UnexpectedStructHeader")
  IN  Check(DsDecodeHeader(dec, ctx))

DsDecodeArrayHeader(dec, ctx, et) ==
  LET Check(h) ==
        IF h.size = DATA_HEADER_SIZE + AsBytes(h.data * embed_size(et, ctx))
        THEN Ok(h.dec, h.data)
        ELSE Err(h.dec, "UnexpectedArrayHeader")
  IN  Check(DsDecodeHeader(dec, ctx))

\* skip_if_null_pointer / skip_if_null_handle: peek the field; when it is the
\* null sentinel move past it.
DsSkipIfNullPointer(dec, ctx) ==
  LET Peek(r) ==
        IF \A i \in 1..8 : r.bytes[i] = 0
        THEN [dec |-> r.dec, skipped |-> TRUE]
        ELSE [dec |-> dec, skipped |-> FALSE]
  IN  Peek(DsDecode(dec, ctx, 8))

DsSkipIfNullUnion(dec, ctx) ==
  LET Peek(r) ==
        IF \A i \in 1..UNION_SIZE : r.bytes[i] = 0
        THEN [dec |-> r.dec, skipped |-> TRUE]
        ELSE [dec |-> dec, skipped |-> FALSE]
  IN  Peek(DsDecodeBytes(SetCursor(dec, DsAlign(CursorOf(dec, ctx.offset), 8)),
                         ctx, UNION_SIZE))

\* skip_if_null_interface: the interface is null when its handle is.
DsSkipIfNullInterface(dec, ctx) ==
  LET Peek(r) ==
        IF \A i \in 1..4 : r.bytes[i] = 255
        THEN [dec |-> DsDecode(r.dec, ctx, 4).dec, skipped |-> TRUE]
        ELSE [dec |-> dec, skipped |-> FALSE]
  IN  Peek(DsDecode(dec, ctx, 4))

\* skip_if_null_handle moving past the field whatever it holds.
DsSkipIfNullHandle_Consumes(dec, ctx) ==
  LET Peek(r) ==
        [dec |-> r.dec, skipped |-> \A i \in 1..4 : r.bytes[i] = 255]
  IN  Peek(DsDecode(dec, ctx, 4))

DsSkipIfNullHandle(dec, ctx) ==
  LET Peek(r) ==
        IF \A i \in 1..4 : r.bytes[i] = 255
        THEN [dec |-> r.dec, skipped |-> TRUE]
        ELSE [dec |-> dec, skipped |-> FALSE]
  IN  Peek(DsDecode(dec, ctx, 4))

\* ------------------------------------------------------------------------
\* String::from_utf8: is bs (from index i on) well-formed UTF-8
\* ------------------------------------------------------------------------
IsCont(bs, i, lo, hi) == i <= Len(bs) /\ bs[i] >= lo /\ bs[i] <= hi

RECURSIVE Utf8From(_, _)
Utf8From(bs, i) ==
  IF i > Len(bs) THEN TRUE
  ELSE LET b == bs[i]
       IN  CASE b <= 127 -> Utf8From(bs, i + 1)
             [] b >= 194 /\ b <= 223 ->
                  IsCont(bs, i + 1, 128, 191) /\ Utf8From(bs, i + 2)
             [] b >= 224 /\ b <= 239 ->
                  /\ IsCont(bs, i + 1, IF b = 224 THEN 160 ELSE 128,
                                        IF b = 237 THEN 159 ELSE 191)
                  /\ IsCont(bs, i + 2, 128, 191)
                  /\ Utf8From(bs, i + 3)
             [] b >= 240 /\ b <= 244 ->
                  /\ IsCont(bs, i + 1, IF b = 240 THEN 144 ELSE 128,
                                        IF b = 244 THEN 143 ELSE 191)
                  /\ IsCont(bs, i + 2, 128, 191)
                  /\ IsCont(bs, i + 3, 128, 191)
                  /\ Utf8From(bs, i + 4)
             [] OTHER -> FALSE

from_utf8_ok(bs) == Utf8From(bs, 1)

\* ------------------------------------------------------------------------
\* decode
\* ------------------------------------------------------------------------
RECURSIVE Decode(_, _, _)
RECURSIVE DecodeSeq(_, _, _, _, _)
RECURSIVE decode_new(_, _, _, _)

\* The element loop going on to the elements after the one that failed before
\* it returns that one's error.
RECURSIVE DecodeSeq_GoOn(_, _, _, _, _)
DecodeSeq_GoOn(et, n, dec, ctx, acc) ==
  IF Len(acc) >= n THEN Ok(dec, acc)
  ELSE LET After(q, e) == [dec |-> q.dec, ok |-> FALSE, v |-> acc, err |-> e]
           Rest(r) ==
             IF r.ok THEN DecodeSeq_GoOn(et, n, r.dec, ctx, Append(acc, r.v))
             ELSE After(DecodeSeq_GoOn(et, n - 1, r.dec, ctx, acc), r.err)
       IN  Rest(Decode(et, dec, ctx))

\* The element loop of the array and map decoders: n - Len(acc) more elements
\* of type et from the region of ctx. On an error, v holds the elements
\* decoded before it.
DecodeSeq(et, n, dec, ctx, acc) ==
  IF Len(acc) >= n THEN Ok(dec, acc)
  ELSE LET Rest(r) ==
             IF r.ok THEN DecodeSeq(et, n, r.dec, ctx, Append(acc, r.v))
             ELSE [dec |-> r.dec, ok |-> FALSE, v |-> acc, err |-> r.err]
       IN  Rest(Decode(et, dec, ctx))

\* The owner of the partly decoded elements vs is dropped: their handles close.
DropValues(dec, et, vs) ==
  [dec EXCEPT !.dropped = @ \cup Range(HandleSeqAll(et, vs, 1))]

\* The partly decoded elements vs are left behind without being dropped.
LeakValues(dec, et, vs) ==
  [dec EXCEPT !.leaked = @ \cup Range(HandleSeqAll(et, vs, 1))]

\* Vec::decode_value with the element loop one iteration short.
VecDecodeValue_OneShort(t, dec, ctx) ==
  LET Elems(r) == IF r.ok THEN r ELSE Return(DropValues(r.dec, t.e, r.v), r.err)
      Header(h) ==
        IF ~h.ok THEN h ELSE Elems(DecodeSeq(t.e, h.v - 1, h.dec, ctx, <<>>))
  IN  Header(DsDecodeArrayHeader(dec, ctx, t.e))

\* [T; N]::decode_value reporting every element failure as a bad array header
\* instead of passing the element's error on.
ArrayDecodeValue_OwnError(t, dec, ctx) ==
  LET Elems(r) ==
        IF r.ok THEN r
        ELSE Err(LeakValues(r.dec, t.e, r.v), "UnexpectedArrayHeader")
      Header(h) ==
        IF ~h.ok THEN h
        ELSE IF h.v # t.n THEN Err(h.dec, "UnexpectedArrayHeader")
        ELSE Elems(DecodeSeq(t.e, t.n, h.dec, ctx, <<>>))
  IN  Header(DsDecodeArrayHeader(dec, ctx, t.e))

VecDecodeValue(t, dec, ctx) ==
  LET Elems(r) == IF r.ok THEN r ELSE Return(DropValues(r.dec, t.e, r.v), r.err)
      Header(h) ==
        IF ~h.ok THEN h ELSE Elems(DecodeSeq(t.e, h.v, h.dec, ctx, <<>>))
  IN  Header(DsDecodeArrayHeader(dec, ctx, t.e))

\* [T; N]::decode_value without the comparison of the header's count with N.
ArrayDecodeValue_NoArityTest(t, dec, ctx) ==
  LET Elems(r) == IF r.ok THEN r ELSE Return(LeakValues(r.dec, t.e, r.v), r.err)
      Header(h) ==
        IF ~h.ok THEN h ELSE Elems(DecodeSeq(t.e, t.n, h.dec, ctx, <<>>))
  IN  Header(DsDecodeArrayHeader(dec, ctx, t.e))

ArrayDecodeValue(t, dec, ctx) ==
  LET Elems(r) == IF r.ok THEN r ELSE Return(LeakValues(r.dec, t.e, r.v), r.err)
      Header(h) ==
        IF ~h.ok THEN h
        ELSE IF h.v # t.n THEN Err(h.dec, "UnexpectedArrayHeader")
        ELSE Elems(DecodeSeq(t.e, t.n, h.dec, ctx, <<>>))
  IN  Header(DsDecodeArrayHeader(dec, ctx, t.e))

BoxDecodeValue(t, dec, ctx) == VecDecodeValue(t, dec, ctx)

\* String::decode_value returning a validation error for bytes that are not
\* UTF-8.
StringDecodeValue_ErrOnBadBytes(dec, ctx) ==
  LET Bytes(r) ==
        IF r.dec.panic THEN Return(r.dec, "panic")
        ELSE IF from_utf8_ok(r.bytes) THEN Ok(r.dec, r.bytes)
        ELSE Err(r.dec, "UnexpectedArrayHeader")
      Header(h) == IF ~h.ok THEN h ELSE Bytes(DsDecodeBytes(h.dec, ctx, h.v))
  IN  Header(DsDecodeArrayHeader(dec, ctx, U8))

StringDecodeValue(dec, ctx) ==
  LET Bytes(r) ==
        IF from_utf8_ok(r.bytes) /\ ~r.dec.panic THEN Ok(r.dec, r.bytes)
        ELSE Return([r.dec EXCEPT !.panic = TRUE], "panic")
      Header(h) == IF ~h.ok THEN h ELSE Bytes(DsDecodeBytes(h.dec, ctx, h.v))
  IN  Header(DsDecodeArrayHeader(dec, ctx, U8))

array_claim_and_decode_header(et, dec, offset) ==
  LET Header(h, context) ==
        [dec |-> h.dec, ok |-> h.ok, ctx |-> context,
         elems |-> IF h.ok THEN h.v ELSE 0, err |-> h.err]
      Claim(c) ==
        IF ~c.ok THEN [dec |-> c.dec, ok |-> FALSE, ctx |-> Context(offset),
                       elems |-> 0, err |-> c.err]
        ELSE Header(DsDecodeArrayHeader(c.dec, c.v, et), c.v)
  IN  Claim(DecoderClaim(dec, offset))

\* An insert that leaves a key already present with the value it has.
MapInsert_KeepFirst(m, key, value) ==
  IF \E i \in 1..Len(m) : m[i][1] = key THEN m
  ELSE Append(m, <<key, value>>)

\* HashMap::insert: a key already present keeps its place and takes the new
\* value; the value it had is dropped.
MapInsert(m, key, value) ==
  IF \E i \in 1..Len(m) : m[i][1] = key
  THEN [i \in 1..Len(m) |-> IF m[i][1] = key THEN <<key, value>> ELSE m[i]]
  ELSE Append(m, <<key, value>>)

RECURSIVE MapInsertAll(_, _, _, _)
MapInsertAll(m, ks, vs, i) ==
  IF i > Len(vs) THEN m
  ELSE MapInsertAll(MapInsert(m, ks[i], vs[i]), ks, vs, i + 1)

\* HashMap::decode_value up to the keys: the struct header, both pointers,
\* the keys region and every key. v holds <<keys_vec, vals_offset>>.
MapDecodeKeys(t, dec, ctx) ==
  LET Keys(r, vals_offset) ==
        IF r.ok THEN Ok(r.dec, <<r.v, vals_offset>>)
        ELSE Return(DropValues(r.dec, t.key, r.v), r.err)
      KeysHeader(a, vals_offset) ==
        IF ~a.ok THEN Return(a.dec, a.err)
        ELSE Keys(DecodeSeq(t.key, a.elems, a.dec, a.ctx, <<>>), vals_offset)
      ValsPointer(kp, vp) ==
        IF ~vp.some THEN Err(vp.dec, "IllegalPointer")
        ELSE IF kp.ptr = MOJOM_NULL_POINTER \/ vp.ptr = MOJOM_NULL_POINTER
             THEN Err(vp.dec, "UnexpectedNullPointer")
        ELSE KeysHeader(array_claim_and_decode_header(t.key, vp.dec, kp.ptr), vp.ptr)
      KeysPointer(kp) ==
        IF ~kp.some THEN Err(kp.dec, "IllegalPointer")
        ELSE ValsPointer(kp, DsDecodePointer(kp.dec, ctx))
      Header(h) == IF ~h.ok THEN h ELSE KeysPointer(DsDecodePointer(h.dec, ctx))
  IN  Header(DsDecodeStructHeader(dec, ctx, MAP_VERSIONS))

\* HashMap::decode_value from the values on: one value per key, inserted.
MapDecodeVals(t, dec, vals_context, keys_vec) ==
  LET Inserted(r, pairs) ==
        Ok([r.dec EXCEPT !.dropped =
              @ \cup ((Range(HandleSeqAll(t.key, keys_vec, 1))
                         \cup Range(HandleSeqAll(t.val, r.v, 1)))
                        \ HandleSet(t, pairs))],
           pairs)
      Vals(r) ==
        IF r.ok THEN Inserted(r, MapInsertAll(<<>>, keys_vec, r.v, 1))
        ELSE Return(DropValues(DropValues(r.dec, t.key, keys_vec), t.val, r.v), r.err)
  IN  Vals(DecodeSeq(t.val, Len(keys_vec), dec, vals_context, <<>>))

\* The element counts of the two arrays, as the map decode compares them.
LogMap(dec, keys_elems, vals_elems) ==
  [dec EXCEPT !.maps = Append(@, [keys |-> keys_elems, vals |-> vals_elems])]

\* HashMap::decode_value without the comparison of the two element counts.
HashMapDecodeValue_NoCountCheck(t, dec, ctx) ==
  LET ValsHeader(a, keys_vec) ==
        IF ~a.ok THEN Return(DropValues(a.dec, t.key, keys_vec), a.err)
        ELSE MapDecodeVals(t, LogMap(a.dec, Len(keys_vec), a.elems), a.ctx, keys_vec)
      Keys(k) ==
        IF ~k.ok THEN k
        ELSE ValsHeader(array_claim_and_decode_header(t.val, k.dec, k.v[2]), k.v[1])
  IN  Keys(MapDecodeKeys(t, dec, ctx))

\* HashMap::decode_value comparing the two element counts once the values
\* are decoded.
HashMapDecodeValue_CheckLast(t, dec, ctx) ==
  LET Checked(r, keys_vec, vals_elems) ==
        IF r.ok /\ Len(keys_vec) # vals_elems
        THEN Err(r.dec, "DifferentSizedArraysInMap")
        ELSE r
      ValsHeader(a, keys_vec) ==
        IF ~a.ok THEN Return(DropValues(a.dec, t.key, keys_vec), a.err)
        ELSE Checked(MapDecodeVals(t, LogMap(a.dec, Len(keys_vec), a.elems),
                                   a.ctx, keys_vec),
                     keys_vec, a.elems)
      Keys(k) ==
        IF ~k.ok THEN k
        ELSE ValsHeader(array_claim_and_decode_header(t.val, k.dec, k.v[2]), k.v[1])
  IN  Keys(MapDecodeKeys(t, dec, ctx))

HashMapDecodeValue(t, dec, ctx) ==
  LET ValsHeader(a, keys_vec) ==
        IF ~a.ok THEN Return(DropValues(a.dec, t.key, keys_vec), a.err)
        ELSE IF Len(keys_vec) # a.elems
             THEN Err(DropValues(LogMap(a.dec, Len(keys_vec), a.elems), t.key, keys_vec),
                      "DifferentSizedArraysInMap")
        ELSE MapDecodeVals(t, LogMap(a.dec, Len(keys_vec), a.elems), a.ctx, keys_vec)
      Keys(k) ==
        IF ~k.ok THEN k
        ELSE ValsHeader(array_claim_and_decode_header(t.val, k.dec, k.v[2]), k.v[1])
  IN  Keys(MapDecodeKeys(t, dec, ctx))

\* StructA::decode_value checking its header against the table of the map.
StructADecodeValue_MapTable(t, dec, ctx) ==
  LET Param0(r) == IF r.ok THEN Ok(r.dec, [param0 |-> r.v]) ELSE r
      Header(h) == IF ~h.ok THEN h ELSE Param0(Decode(t.f, h.dec, ctx))
  IN  Header(DsDecodeStructHeader(dec, ctx, MAP_VERSIONS))

StructADecodeValue(t, dec, ctx) ==
  LET Param0(r) == IF r.ok THEN Ok(r.dec, [param0 |-> r.v]) ELSE r
      Header(h) == IF ~h.ok THEN h ELSE Param0(Decode(t.f, h.dec, ctx))
  IN  Header(DsDecodeStructHeader(dec, ctx, STRUCT_A_VERSIONS))

decode_value(t, dec, ctx) ==
  CASE t.k = "vec" -> VecDecodeValue(t, dec, ctx)
    [] t.k = "arr" -> ArrayDecodeValue(t, dec, ctx)
    [] t.k = "box" -> BoxDecodeValue(t, dec, ctx)
    [] t.k = "string" -> StringDecodeValue(dec, ctx)
    [] t.k = "map" -> HashMapDecodeValue(t, dec, ctx)
    [] t.k = "struct" -> StructADecodeValue(t, dec, ctx)

\* decode_new going on to decode_value when the claim was refused.
decode_new_ClaimIgnored(t, dec, ctx, pointer) ==
  LET Claim(c) ==
        IF c.ok THEN decode_value(t, c.dec, c.v)
        ELSE decode_value(t, c.dec, Context(pointer))
  IN  Claim(DecoderClaim(dec, pointer))

decode_new(t, dec, ctx, pointer) ==
  LET Claim(c) == IF c.ok THEN decode_value(t, c.dec, c.v) ELSE c
  IN  Claim(DecoderClaim(dec, pointer))

\* impl_encodable_for_pointer!: decode (the inline pointer, then the region).
PointerDecode(t, dec, ctx) ==
  LET Pointer(p) ==
        IF ~p.some THEN Err(p.dec, "IllegalPointer")
        ELSE IF p.ptr = MOJOM_NULL_POINTER THEN Err(p.dec, "UnexpectedNullPointer")
        ELSE decode_new(t, p.dec, ctx, p.ptr)
  IN  Pointer(DsDecodePointer(dec, ctx))

\* The handle decode reading its index as a u32.
HandleDecode_Unsigned(dec, ctx) ==
  LET Index(r, handle_index) ==
        DecoderClaimHandle([r.dec EXCEPT !.hreads = Append(@, handle_index)],
                           handle_index)
      Read(r) == Index(r, FromLE(r.bytes))
  IN  Read(DsDecode(dec, ctx, 4))

HandleDecode(dec, ctx) ==
  LET Index(r, handle_index) ==
        DecoderClaimHandle([r.dec EXCEPT !.hreads = Append(@, handle_index)],
                           handle_index)
      Read(r) == Index(r, FromLEi32(r.bytes))
  IN  Read(DsDecode(dec, ctx, 4))

\* MojomEncodable::decode of an interface: the handle, then the version.
InterfaceDecode(dec, ctx) ==
  LET Version(r, h) == Ok(r.dec, [h |-> h, version |-> FromLE(r.bytes)])
      Handle(r) ==
        IF r.ok THEN Version(DsDecode(r.dec, ctx, 4), r.v)
        ELSE r
  IN  Handle(HandleDecode(dec, ctx))

\* MojomUnion::decode_value of a union: the size and the tag of the cell, then
\* the variant the tag names, under a union context.
UnionDecodeValue(t, dec, ctx) ==
  LET Variant(r, tag) == IF r.ok THEN Ok(r.dec, UnionOf(tag, r.v)) ELSE r
      Tag(b, tag) ==
        IF tag + 1 \in 1..Len(t.vs)
        THEN Variant(Decode(t.vs[tag + 1], b.dec, set_is_union(ctx, TRUE)), tag)
        ELSE Err(b.dec, "UnknownUnionTag")
      Size(a) ==
        IF FromLE(a.bytes) # UNION_SIZE THEN Err(a.dec, "UnexpectedNullUnion")
        ELSE (LET Read(b) == Tag(b, FromLE(b.bytes)) IN Read(DsDecode(a.dec, ctx, 4)))
  IN  Size(DsDecode(dec, ctx, 4))

LogUnionDecoded(r, nested, base, from, c) ==
  [r EXCEPT !.dec.unions =
     Append(@, [nested |-> nested, base |-> base, from |-> from,
                to |-> c.pos, bit |-> c.bit])]

\* decode_union_nested without the test for the null pointer.
decode_union_nested_NoNullTest(t, dec, ctx) ==
  LET from == DsAlign(CursorOf(dec, ctx.offset), 8).pos
      Logged(r) ==
        LogUnionDecoded(r, TRUE, ctx.offset, from, CursorOf(r.dec, ctx.offset))
      Claim(c) ==
        IF c.ok
        THEN UnionDecodeValue(t, [c.dec EXCEPT !.visited = Append(@, c.v.offset)], c.v)
        ELSE c
      Pointer(p) ==
        IF ~p.some THEN Err(p.dec, "IllegalPointer")
        ELSE Claim(DecoderClaim(p.dec, p.ptr))
  IN  Logged(Pointer(DsDecodePointer(dec, ctx)))

decode_union_nested(t, dec, ctx) ==
  LET from == DsAlign(CursorOf(dec, ctx.offset), 8).pos
      Logged(r) ==
        LogUnionDecoded(r, TRUE, ctx.offset, from, CursorOf(r.dec, ctx.offset))
      Claim(c) ==
        IF c.ok
        THEN UnionDecodeValue(t, [c.dec EXCEPT !.visited = Append(@, c.v.offset)], c.v)
        ELSE c
      Pointer(p) ==
        IF ~p.some THEN Err(p.dec, "IllegalPointer")
        ELSE IF p.ptr = MOJOM_NULL_POINTER THEN Err(p.dec, "UnexpectedNullPointer")
        ELSE Claim(DecoderClaim(p.dec, p.ptr))
  IN  Logged(Pointer(DsDecodePointer(dec, ctx)))

decode_union_inline(t, dec, ctx) ==
  LET start == DsAlign(CursorOf(dec, ctx.offset), 8)
      Aligned(r) ==
        [r EXCEPT !.dec = SetCursor(@, DsAlign(CursorOf(@, ctx.offset), 8))]
      Logged(r) ==
        LogUnionDecoded(r, FALSE, ctx.offset, start.pos, CursorOf(r.dec, ctx.offset))
  IN  Logged(Aligned(UnionDecodeValue(t, SetCursor(dec, start), ctx)))

\* MojomEncodable::decode of a union.
UnionDecode(t, dec, ctx) ==
  IF ctx.is_union THEN decode_union_nested(t, dec, ctx)
  ELSE decode_union_inline(t, dec, ctx)

\* The skip_if_null_* call s of Option::decode, with the cursor c0 before it
\* and c1 after it.
LogSkip(s, cat, c0, c1) ==
  [s EXCEPT !.dec.skips =
     Append(@, [base |-> c0.off, cat |-> cat, pos |-> c0.pos, bit |-> c0.bit,
                skipped |-> s.skipped, pos1 |-> c1.pos, bit1 |-> c1.bit])]

OptionDecode(t, dec, ctx) ==
  LET Present(r) == IF r.ok THEN Ok(r.dec, <<r.v>>) ELSE r
      Skipped(s) ==
        IF s.skipped THEN Ok(s.dec, <<>>) ELSE Present(Decode(t.e, s.dec, ctx))
      Logged(s) ==
        Skipped(LogSkip(s, mojom_type(t.e), CursorOf(dec, ctx.offset),
                        CursorOf(s.dec, ctx.offset)))
  IN  Logged(CASE mojom_type(t.e) = "Pointer" -> DsSkipIfNullPointer(dec, ctx)
               [] mojom_type(t.e) = "Union" -> DsSkipIfNullUnion(dec, ctx)
               [] mojom_type(t.e) = "Interface" -> DsSkipIfNullInterface(dec, ctx)
               [] mojom_type(t.e) = "Handle" -> DsSkipIfNullHandle(dec, ctx)
               [] OTHER -> [dec |-> [dec EXCEPT !.panic = TRUE], skipped |-> TRUE])

PrimDecode(t, dec, ctx) ==
  LET Read(r) == Ok(r.dec, FromLE(r.bytes))
  IN  Read(DsDecode(dec, ctx, t.w))

BoolDecode(dec, ctx) ==
  LET Read(r) == Ok(r.dec, r.v)
  IN  Read(DsDecodeBool(dec, ctx))

Decode(t, dec, ctx) ==
  CASE t.k = "prim" -> PrimDecode(t, Did(dec, "decode"), ctx)
    [] t.k = "bool" -> BoolDecode(Did(dec, "decode"), ctx)
    [] t.k = "handle" -> HandleDecode(Did(dec, "decode"), ctx)
    [] t.k = "iface" -> InterfaceDecode(Did(dec, "decode"), ctx)
    [] t.k = "union" -> UnionDecode(t, Did(dec, "decode"), ctx)
    [] t.k = "opt" -> OptionDecode(t, Did(dec, "decode"), ctx)
    [] OTHER -> PointerDecode(t, Did(dec, "decode"), ctx)

\* deserialize with the decoder forgotten instead of dropped: the handles left
\* in its vector are not closed.
deserialize_DecoderForgotten(t, buf, hs) ==
  decode_new(t, DecoderNew(buf, hs), DefaultContext, 0)

\* MojomStruct::deserialize: the decoder is built from the buffer and the
\* handle vector, the root is decoded at offset 0, and the decoder is dropped
\* on return, which closes every handle still in its vector. closed is the
\* set of handles closed by the time deserialize has returned.
deserialize(t, buf, hs) ==
  LET DropDecoder(r) ==
        [r EXCEPT !.dec.dropped =
           @ \cup {hs[i + 1] : i \in (0..(Len(hs) - 1)) \ r.dec.slots}]
  IN  DropDecoder(decode_new(t, DecoderNew(buf, hs), DefaultContext, 0))

\* ------------------------------------------------------------------------
\* The message envelope
\*   A message is the MessageHeader struct {interface_id, name, flags,
\*   request_id} followed by the payload struct. The one message of the
\*   interface modelled has StructA as its payload.
\* ------------------------------------------------------------------------
MESSAGE_HEADER_SIZE == DATA_HEADER_SIZE + 4 + 4 + 4 + 4 + 8
MESSAGE_HEADER_VERSIONS == << <<0, MESSAGE_HEADER_SIZE>> >>
MessageName == 3

\* MessageHeader::serialize into a buffer of len bytes: the bytes, and the
\* handle vector it returns.
MessageHeaderSerialize(header, len) ==
  LET RequestId(r) ==
        IF r.enc.failed THEN r ELSE StEncode(r.enc, r.st, header.request_id, 8)
      Flags(r) ==
        IF r.enc.failed THEN r ELSE RequestId(StEncode(r.enc, r.st, header.flags, 4))
      Name(r) ==
        IF r.enc.failed THEN r ELSE Flags(StEncode(r.enc, r.st, header.name, 4))
      Added(a) ==
        IF a.enc.failed THEN a
        ELSE Name(StEncode(a.enc, a.st, header.interface_id, 4))
  IN  Added(EncoderAdd(EncoderNew(len), MESSAGE_HEADER_SIZE, 0)).enc

\* MessageHeader::deserialize(buffer, handles): the header, or the error.
MessageHeaderDeserialize(buf, hs) ==
  LET RequestId(r, a, b, c) ==
        [ok |-> ~r.dec.panic, err |-> IF r.dec.panic THEN "panic" ELSE "none",
         header |-> [interface_id |-> a, name |-> b, flags |-> c,
                     request_id |-> FromLE(r.bytes)],
         handles |-> hs]
      Flags(r, a, b, ctx) == RequestId(DsDecode(r.dec, ctx, 8), a, b, FromLE(r.bytes))
      Name(r, a, ctx) == Flags(DsDecode(r.dec, ctx, 4), a, FromLE(r.bytes), ctx)
      InterfaceId(r, ctx) == Name(DsDecode(r.dec, ctx, 4), FromLE(r.bytes), ctx)
      Refused(r) == [ok |-> FALSE, err |-> r.err, header |-> <<>>, handles |-> hs]
      Header(h, ctx) ==
        IF h.ok THEN InterfaceId(DsDecode(h.dec, ctx, 4), ctx) ELSE Refused(h)
      Claim(c) ==
        IF c.ok THEN Header(DsDecodeStructHeader(c.dec, c.v, MESSAGE_HEADER_VERSIONS), c.v)
        ELSE Refused(c)
  IN  Claim(DecoderClaim(DecoderNew(buf, hs), 0))

\* MojomInterfaceSend::create_request: the header with the request id, then
\* the payload, serialized into the two parts of one zeroed buffer.
create_header == [interface_id |-> 0, name |-> MessageName, flags |-> 0,
                  request_id |-> 0]

\* create_request leaving the header as create_header made it.
create_request_NoRequestId(req_id, t, payload) ==
  LET header == create_header
      header_size == align_default(MESSAGE_HEADER_SIZE)
      size == header_size + compute_size(t, payload, DefaultContext)
      Joined(h, e) ==
        [buf |-> h.buf \o e.buf, handles |-> h.handles \o e.handles]
  IN  Joined(MessageHeaderSerialize(header, header_size),
             serialize(t, payload, size - header_size))

create_request(req_id, t, payload) ==
  LET header == [create_header EXCEPT !.request_id = req_id]
      header_size == align_default(MESSAGE_HEADER_SIZE)
      size == header_size + compute_size(t, payload, DefaultContext)
      Joined(h, e) ==
        [buf |-> h.buf \o e.buf, handles |-> h.handles \o e.handles]
  IN  Joined(MessageHeaderSerialize(header, header_size),
             serialize(t, payload, size - header_size))

\* What send_request did: its result, the messages it made and the writes to
\* the pipe.
\* The results are Ok, FailedWrite(a) and OldVersion(a, b); Okay is the
\* MojoResult of a write that succeeded.
Okay == 0
SendResult(kind, a, b) == [kind |-> kind, a |-> a, b |-> b]
NoSend == [res |-> SendResult("none", 0, 0), made |-> 0, writes |-> <<>>]

\* send_request without the test of the version.
send_request_NoVersionTest(version, min_version, req_id, t, payload, pipe) ==
  [res |-> IF pipe = Okay THEN SendResult("Ok", 0, 0)
           ELSE SendResult("FailedWrite", pipe, 0),
   made |-> 1,
   writes |-> <<create_request(req_id, t, payload)>>]

\* MojomInterfaceSend::send_request; pipe is what the pipe's write returns.
send_request(version, min_version, req_id, t, payload, pipe) ==
  IF version < min_version
  THEN [NoSend EXCEPT !.res = SendResult("OldVersion", version, min_version)]
  ELSE [res |-> IF pipe = Okay THEN SendResult("Ok", 0, 0)
                ELSE SendResult("FailedWrite", pipe, 0),
        made |-> 1,
        writes |-> <<create_request(req_id, t, payload)>>]

\* What decode_message did: its result, and for each of the two decodes the
\* bytes and the handle vector it was given.
NoMessage ==
  [kind |-> "none", err |-> "none", req_id |-> 0, v |-> <<>>,
   header_handles |-> <<>>, header_read |-> FALSE,
   payload_from |-> 0, payload_handles |-> <<>>, payload_read |-> FALSE]

\* MojomMessageOption::decode_payload of the interface's container: the
\* payload of the message the header names.
decode_payload(t, header, buf, hs) ==
  IF header.name = MessageName THEN deserialize(t, buf, hs)
  ELSE Err(DecoderNew(buf, hs), "UnknownMessage")

\* decode_message handing the handle vector to the header's decode and none
\* to the payload's.
decode_message_HandlesToHeader(t, buf, hs) ==
  LET Payload(h, r) ==
        [kind |-> IF r.dec.panic THEN "panic" ELSE IF r.ok THEN "ok" ELSE "err",
         err |-> r.err, req_id |-> h.header.request_id, v |-> r.v,
         header_handles |-> h.handles, header_read |-> TRUE,
         payload_from |-> MESSAGE_HEADER_SIZE, payload_handles |-> <<>>,
         payload_read |-> TRUE]
      Header(h) ==
        IF ~h.ok
        THEN [NoMessage EXCEPT !.kind = "err", !.err = h.err,
                               !.header_handles = h.handles, !.header_read = TRUE]
        ELSE Payload(h, decode_payload(t, h.header,
                                       SubSeq(buf, MESSAGE_HEADER_SIZE + 1, Len(buf)),
                                       <<>>))
  IN  Header(MessageHeaderDeserialize(buf, hs))

\* MojomMessageOption::decode_message
decode_message(t, buf, hs) ==
  LET Payload(h, r) ==
        [kind |-> IF r.dec.panic THEN "panic" ELSE IF r.ok THEN "ok" ELSE "err",
         err |-> r.err, req_id |-> h.header.request_id, v |-> r.v,
         header_handles |-> h.handles, header_read |-> TRUE,
         payload_from |-> MESSAGE_HEADER_SIZE, payload_handles |-> hs,
         payload_read |-> TRUE]
      Header(h) ==
        IF ~h.ok
        THEN [NoMessage EXCEPT !.kind = "err", !.err = h.err,
                               !.header_handles = h.handles, !.header_read = TRUE]
        ELSE Payload(h, decode_payload(t, h.header,
                                       SubSeq(buf, MESSAGE_HEADER_SIZE + 1, Len(buf)),
                                       hs))
  IN  Header(MessageHeaderDeserialize(buf, <<>>))

\* ------------------------------------------------------------------------
\* The values serialized
\* ------------------------------------------------------------------------
ByteVals == {3, 200}
WordVals == {7, 258}
HandleIds == {11, 12, 13}
InterfaceVersions == {0, 2}
StringVals == {<<>>, <<97>>, <<195, 169>>, <<104, 101, 108, 108, 111>>}

SeqsUpTo(S, n) == UNION {[1..m -> S] : m \in 0..n}

NoRepeat(s) == \A i, j \in 1..Len(s) : i # j => s[i] # s[j]

RECURSIVE Values(_)
Values(t) ==
  CASE t.k = "prim" -> IF t.w = 1 THEN ByteVals ELSE WordVals
    [] t.k = "bool" -> BOOLEAN
    [] t.k = "handle" -> HandleIds
    [] t.k = "iface" -> [h : HandleIds, version : InterfaceVersions]
    [] t.k = "union" ->
         UNION {{UnionOf(i - 1, x) : x \in Values(t.vs[i])} :
                  i \in 1..Len(t.vs)}
    [] t.k = "string" -> StringVals
    [] t.k = "opt" -> {<<>>} \cup {<<x>> : x \in Values(t.e)}
    [] t.k \in {"vec", "box"} -> SeqsUpTo(Values(t.e), MaxLen)
    [] t.k = "arr" -> [1..t.n -> Values(t.e)]
    [] t.k = "map" ->
         {m \in SeqsUpTo(Values(t.key) \X Values(t.val), MaxLen) :
            NoRepeat([i \in 1..Len(m) |-> m[i][1]])}
    [] t.k = "struct" -> {[param0 |-> x] : x \in Values(t.f)}

\* A handle is owned once: no native identity occurs twice in a value.
OwnedValues(t) == {v \in Values(t) : NoRepeat(HandleSeq(t, v))}

FieldTypes ==
  { Arr(UntypedHandle, STRUCT_A_ARITY), Vec(U8), Vec(U32), Vec(Bool),
    BoxSlice(U8), Str, Vec(Str), Opt(Vec(U8)), Vec(Opt(UntypedHandle)),
    Map(U8, U8), Map(Bool, U8), Map(Str, U8), Map(U8, UntypedHandle),
    Vec(UnionA), Vec(Opt(UnionA)), Vec(Opt(Interface)) }

RootTypes == {StructA(f) : f \in FieldTypes}

\* Bytes an altered message may carry in place of one of its own, and the
\* places altered: the low byte of a 32-bit word, where the sizes, counts,
\* handle indices and the low bytes of the pointers are.
PokeVals == {0, 1, 3, 8, 16, 255}
PokePlaces(buf) == {p \in 1..Len(buf) : p % 4 = 1}

NoEncoderLog ==
  [regions |-> <<>>, ptrs |-> <<>>, unions |-> <<>>, cursors |-> <<>>,
   ends |-> <<>>, bytes |-> 0, failed |-> FALSE]
NoResult == [kind |-> "none", v |-> <<>>, err |-> "none"]
NoDecoderLog ==
  [slots |-> {}, claimed |-> <<>>, attempts |-> <<>>, visited |-> <<>>,
   maps |-> <<>>, hreads |-> <<>>, unions |-> <<>>, trace |-> <<>>,
   skips |-> <<>>, dropped |-> {}, leaked |-> {}]

\* The region a pointer field at wire offset loc of the message points to, the
\* size in the data header at off and the element count in the array header
\* at off.
PointerAt(loc) == loc + FromLE(SubSeq(buffer, loc + 1, loc + 8))
SizeAt(off) == FromLE(SubSeq(buffer, off + 1, off + 4))
CountAt(off) == FromLE(SubSeq(buffer, off + 5, off + 8))

\* The messages whose root field is an array or a string, the region of that
\* array and the bits one element of it takes inline.
HasArray == ty.f.k \in {"vec", "arr", "box", "string"}
ArrAt == PointerAt(DATA_HEADER_SIZE)
ElemBits == IF ty.f.k = "string" THEN 8 ELSE embed_size(ty.f.e, DefaultContext)
ArraySizeFits(off) == SizeAt(off) = DATA_HEADER_SIZE + AsBytes(CountAt(off) * ElemBits)

\* The struct of a map the root struct points to and its two arrays.
MapAt == PointerAt(DATA_HEADER_SIZE)
KeysAt == PointerAt(MapAt + DATA_HEADER_SIZE)
ValsAt == PointerAt(MapAt + DATA_HEADER_SIZE + 8)

\* The places of the keys array of a map message: its header and its elements.
KeysPlaces ==
  {p \in PokePlaces(buffer) : p > KeysAt /\ p <= KeysAt + SizeAt(KeysAt)}

\* The messages machine at rest.
MpIdle ==
  [pc |-> "idle", version |-> 0, min_version |-> 0, req_id |-> 0,
   t |-> StructA(Vec(U8)), v |-> [param0 |-> <<>>], pipe |-> Okay,
   sent |-> NoSend, buffer |-> <<>>, handles |-> <<>>, got |-> NoMessage]

\* The versions machine at rest.
VtIdle == [pc |-> "idle", hist |-> <<>>, known |-> 0, sent |-> 0,
           wire |-> <<>>, res |-> "none"]

\* The bools machine at rest.
NoBools == [ok |-> FALSE, bools |-> <<>>, byte |-> 0]
BpIdle ==
  [pc |-> "idle", bools |-> <<>>, byte |-> 0, array |-> <<>>, fields |-> <<>>,
   at |-> 0, got |-> NoBools, got_fields |-> NoBools]

\* ------------------------------------------------------------------------
\* The state machine
\*   pc       "value" -> "message" -> "decoded", or
\*            "value" -> "message" -> "altered" -> "rejected" when the message
\*            was altered before it was deserialized
\*   alt      how the message was altered: "none", "truncated", "poked",
\*            "nulled", "recounted", "map altered"
\*   ty, val  the root struct type and the value serialized
\*   buffer, handles   the message
\*   elog     what the encoder did (regions, pointers, write head)
\*   res      what deserialize returned
\*   dlog     what the decoder did
\*   open     the native handles that are open
\* ------------------------------------------------------------------------
Init ==
  /\ pc = "value"
  /\ alt = "none"
  /\ ty \in RootTypes
  /\ val \in OwnedValues(ty)
  /\ buffer = <<>>
  /\ handles = <<>>
  /\ elog = NoEncoderLog
  /\ res = NoResult
  /\ dlog = NoDecoderLog
  /\ open = HandleSet(ty, val)
  /\ vt = VtIdle
  /\ mp = MpIdle
  /\ bp = BpIdle

\* val.auto_serialize()
Serialize ==
  /\ pc = "value"
  /\ LET Sent(e) ==
           /\ buffer' = e.buf
           /\ handles' = e.handles
           /\ elog' = [regions |-> e.regions, ptrs |-> e.ptrs, unions |-> e.unions,
                       cursors |-> e.cursors, ends |-> e.ends,
                       bytes |-> e.bytes, failed |-> e.failed]
     IN  Sent(auto_serialize(ty, val))
  /\ pc' = "message"
  /\ UNCHANGED <<alt, ty, val, res, dlog, open>>
  /\ UNCHANGED aux

\* handles.truncate(k): the handles cut off are dropped, which closes them.
TruncateHandles ==
  /\ pc = "message"
  /\ \E k \in 0..(Len(handles) - 1) :
       /\ handles' = SubSeq(handles, 1, k)
       /\ open' = open \ {handles[i] : i \in (k + 1)..Len(handles)}
  /\ pc' = "altered"
  /\ alt' = "truncated"
  /\ UNCHANGED <<ty, val, buffer, elog, res, dlog>>
  /\ UNCHANGED aux

\* One byte of the message differs from what was serialized.
Poke ==
  /\ pc = "message"
  /\ \E p \in PokePlaces(buffer), b \in PokeVals :
       /\ b # buffer[p]
       /\ buffer' = [buffer EXCEPT ![p] = b]
  /\ pc' = "altered"
  /\ alt' = "poked"
  /\ UNCHANGED <<ty, val, handles, elog, res, dlog, open>>
  /\ UNCHANGED aux

\* One 32-bit word of the message holds the null handle sentinel instead of
\* what was serialized.
PokeNullHandle ==
  /\ pc = "message"
  /\ \E p \in PokePlaces(buffer) :
       /\ \E i \in 0..3 : buffer[p + i] # 255
       /\ buffer' = [i \in 1..Len(buffer) |->
                       IF i \in p..(p + 3) THEN 255 ELSE buffer[i]]
  /\ pc' = "altered"
  /\ alt' = "nulled"
  /\ UNCHANGED <<ty, val, handles, elog, res, dlog, open>>
  /\ UNCHANGED aux

\* The header of the array the root struct points to is that of an array of
\* another element count n: the count, and the size that goes with it.
PokeArrayHeader ==
  /\ pc = "message"
  /\ HasArray
  /\ \E n \in 0..(STRUCT_A_ARITY + 1) :
       /\ n # CountAt(ArrAt)
       /\ buffer' = WriteAt(buffer, ArrAt,
                            LE(DATA_HEADER_SIZE + AsBytes(n * ElemBits), 4) \o LE(n, 4))
  /\ pc' = "altered"
  /\ alt' = "recounted"
  /\ UNCHANGED <<ty, val, handles, elog, res, dlog, open>>
  /\ UNCHANGED aux

\* The values array of a map message is headed as an array of another element
\* count n, and one byte of its keys array is b.
PokeMap ==
  /\ pc = "message"
  /\ ty.f.k = "map"
  /\ \E n \in 0..(MaxLen + 1), p \in KeysPlaces, b \in PokeVals :
       /\ n # CountAt(ValsAt)
       /\ buffer' =
            [WriteAt(buffer, ValsAt,
                     LE(DATA_HEADER_SIZE
                          + AsBytes(n * embed_size(ty.f.val, DefaultContext)), 4)
                       \o LE(n, 4))
               EXCEPT ![p] = b]
  /\ pc' = "altered"
  /\ alt' = "map altered"
  /\ UNCHANGED <<ty, val, handles, elog, res, dlog, open>>
  /\ UNCHANGED aux

\* MojomStruct::deserialize(&buffer, handles)
Deserialize ==
  /\ pc \in {"message", "altered"}
  /\ ~elog.failed
  /\ LET Returned(r) ==
           /\ res' = [kind |-> IF r.dec.panic THEN "panic"
                               ELSE IF r.ok THEN "ok" ELSE "err",
                      v |-> r.v, err |-> r.err]
           /\ dlog' = [slots |-> r.dec.slots, claimed |-> r.dec.claimed,
                       attempts |-> r.dec.attempts, visited |-> r.dec.visited,
                       maps |-> r.dec.maps, hreads |-> r.dec.hreads,
                       unions |-> r.dec.unions, trace |-> r.dec.trace,
                       skips |-> r.dec.skips,
                       dropped |-> r.dec.dropped,
                       leaked |-> r.dec.leaked]
           /\ open' = open \ r.dec.dropped
     IN  Returned(deserialize(ty, buffer, handles))
  /\ pc' = IF pc = "message" THEN "decoded" ELSE "rejected"
  /\ UNCHANGED <<alt, ty, val, buffer, handles, elog>>
  /\ UNCHANGED aux

Next ==
  \/ Serialize
  \/ TruncateHandles
  \/ Poke
  \/ PokeNullHandle
  \/ PokeArrayHeader
  \/ PokeMap
  \/ Deserialize

Spec == Init /\ [][Next]_vars

\* ------------------------------------------------------------------------
\* The versions of a struct
\*   A struct's version table grows by one (version, size) entry with each
\*   version declared; StructA's begins with STRUCT_A_VERSIONS. The receiver
\*   was generated when the first `known` versions existed, the sender
\*   serializes at the version at place `sent` of the history.
\*   vt: [pc, hist, known, sent, wire, res]
\*     pc     "start" -> "sent" -> "read"
\*     wire   the bytes of the struct's region
\*     res    what decode_struct_header returned: "ok" or the error
\* ------------------------------------------------------------------------
Histories ==
  {h \in SeqsUpTo((0..MaxVersion) \X {STRUCT_A_SIZE + 8 * i : i \in 0..MaxVersion},
                  MaxVersion + 1) :
     /\ Len(h) >= 1
     /\ h[1] = STRUCT_A_VERSIONS[1]
     /\ \A i \in 1..(Len(h) - 1) : h[i][1] < h[i + 1][1] /\ h[i][2] <= h[i + 1][2]}

\* The serialize/deserialize machine at rest.
MainIdle ==
  /\ pc = "idle"
  /\ alt = "none"
  /\ ty = StructA(Vec(U8))
  /\ val = [param0 |-> <<>>]
  /\ buffer = <<>>
  /\ handles = <<>>
  /\ elog = NoEncoderLog
  /\ res = NoResult
  /\ dlog = NoDecoderLog
  /\ open = {}

VtInit ==
  /\ MainIdle
  /\ mp = MpIdle
  /\ bp = BpIdle
  /\ \E h \in Histories, k \in 1..(MaxVersion + 1) :
       /\ k <= Len(h)
       /\ vt = [VtIdle EXCEPT !.pc = "start", !.hist = h, !.known = k]

\* The struct serialized at one of its versions: the data header and the
\* payload of that version's size.
VtSerialize ==
  /\ vt.pc = "start"
  /\ \E j \in 1..Len(vt.hist) :
       vt' = [vt EXCEPT
                !.pc = "sent", !.sent = j,
                !.wire = LE(vt.hist[j][2], 4) \o LE(vt.hist[j][1], 4)
                           \o [i \in 1..(vt.hist[j][2] - DATA_HEADER_SIZE) |-> 0]]
  /\ UNCHANGED <<main, mp, bp>>

\* One byte of the header differs from what was serialized.
VtPoke ==
  /\ vt.pc = "sent"
  /\ \E p \in {1, 5}, b \in PokeVals :
       /\ b # vt.wire[p]
       /\ vt' = [vt EXCEPT !.sent = 0, !.wire[p] = b]
  /\ UNCHANGED <<main, mp, bp>>

\* The receiver claims the region and decodes its header against the table
\* of the versions it knows.
VtDecode ==
  /\ vt.pc = "sent"
  /\ LET Header(h) == vt' = [vt EXCEPT !.pc = "read",
                                        !.res = IF h.ok THEN "ok" ELSE h.err]
         Claim(c) ==
           IF c.ok
           THEN Header(DsDecodeStructHeader(c.dec, c.v, SubSeq(vt.hist, 1, vt.known)))
           ELSE Header(c)
     IN  Claim(DecoderClaim(DecoderNew(vt.wire, <<>>), 0))
  /\ UNCHANGED <<main, mp, bp>>

VtNext == VtSerialize \/ VtPoke \/ VtDecode

VersionSpec == VtInit /\ [][VtNext]_vars

\* ------------------------------------------------------------------------
\* The messages of an interface
\*   mp: [pc, version, min_version, req_id, t, v, pipe, sent, buffer,
\*        handles, got]
\*     pc       "ready" -> "sent" -> "received", with "sent" -> "sent" when
\*              the message is altered on its way
\*     version, min_version   the interface's version and the least version
\*              the request needs
\*     t, v     the payload's type and value
\*     pipe     what the pipe's write returns
\*     sent     what send_request did
\*     buffer, handles   the message in the pipe
\*     got      what decode_message did
\* ------------------------------------------------------------------------
MpInit ==
  /\ MainIdle
  /\ vt = VtIdle
  /\ bp = BpIdle
  /\ \E version \in 0..MaxInterfaceVersion, min_version \in 0..MaxInterfaceVersion,
        req_id \in {5, 300}, pipe \in {Okay, 9},
        f \in {Vec(U8), Arr(UntypedHandle, STRUCT_A_ARITY)} :
       \E v \in OwnedValues(StructA(f)) :
          mp = [MpIdle EXCEPT !.pc = "ready", !.version = version,
                              !.min_version = min_version, !.req_id = req_id,
                              !.t = StructA(f), !.v = v, !.pipe = pipe]

\* self.send_request(req_id, payload)
SendRequest ==
  /\ mp.pc = "ready"
  /\ LET Sent(r) ==
           mp' = [mp EXCEPT
                    !.pc = "sent", !.sent = r,
                    !.buffer = IF r.res.kind = "Ok" THEN r.writes[1].buf ELSE <<>>,
                    !.handles = IF r.res.kind = "Ok" THEN r.writes[1].handles ELSE <<>>]
     IN  Sent(send_request(mp.version, mp.min_version, mp.req_id, mp.t, mp.v, mp.pipe))
  /\ UNCHANGED <<main, vt, bp>>

\* One byte of the message in the pipe differs from what was written.
MpPoke ==
  /\ mp.pc = "sent"
  /\ mp.sent.res.kind = "Ok"
  /\ mp.buffer = mp.sent.writes[1].buf
  /\ \E p \in PokePlaces(mp.buffer), b \in PokeVals :
       /\ b # mp.buffer[p]
       /\ mp' = [mp EXCEPT !.buffer[p] = b]
  /\ UNCHANGED <<main, vt, bp>>

\* recv_response at the other end of the pipe: the message read is decoded.
RecvResponse ==
  /\ mp.pc = "sent"
  /\ mp.sent.res.kind = "Ok"
  /\ mp' = [mp EXCEPT !.pc = "received",
                      !.got = decode_message(mp.t, mp.buffer, mp.handles)]
  /\ UNCHANGED <<main, vt, bp>>

MpNext == SendRequest \/ MpPoke \/ RecvResponse

MessageSpec == MpInit /\ [][MpNext]_vars

\* ------------------------------------------------------------------------
\* The packing of bools
\*   A run of bools is encoded twice: as the elements of a Vec<bool>, and as
\*   the leading fields of a region whose next field is a u8, the way the
\*   encode_value of a struct encodes its fields one after the other through
\*   the state of the struct's region.
\*   bp: [pc, bools, byte, array, fields, at, got, got_fields]
\*     pc       "start" -> "encoded" -> "read"
\*     bools, byte   the run of bools and the u8 after it
\*     array    the bytes of the Vec<bool> region
\*     fields   the bytes of the region of bools and u8
\*     at       the cursor of that region after the u8 was written
\*     got, got_fields   what decoding the two regions returned
\* ------------------------------------------------------------------------
FIELDS_SIZE == DATA_HEADER_SIZE + 8

BpInit ==
  /\ MainIdle
  /\ vt = VtIdle
  /\ mp = MpIdle
  /\ \E bs \in SeqsUpTo(BOOLEAN, MaxBools), b \in ByteVals :
       bp = [BpIdle EXCEPT !.pc = "start", !.bools = bs, !.byte = b]

\* The bools as a Vec<bool>, and the bools and the u8 as fields of one region.
BpEncode ==
  /\ bp.pc = "start"
  /\ LET Byte(r) == Encode(U8, bp.byte, r.enc, r.st, DefaultContext)
         Fields(a) == Byte(EncodeSeq(Bool, bp.bools, 1, a.enc, a.st, a.ctx))
         Made(e, f) ==
           bp' = [bp EXCEPT !.pc = "encoded", !.array = e.enc.buf,
                            !.fields = f.enc.buf, !.at = f.st.pos]
     IN  Made(encode_new(Vec(Bool), bp.bools,
                         EncoderNew(compute_size(Vec(Bool), bp.bools, DefaultContext)),
                         DefaultContext),
              Fields(EncoderAdd(EncoderNew(FIELDS_SIZE), FIELDS_SIZE, 0)))
  /\ UNCHANGED <<main, vt, mp>>

\* The two regions decoded as they were encoded.
BpDecode ==
  /\ bp.pc = "encoded"
  /\ LET Byte(r, b) == [ok |-> r.ok /\ b.ok, bools |-> r.v, byte |-> b.v]
         Bools(r, ctx) == Byte(r, Decode(U8, r.dec, ctx))
         Header(h, ctx) == Bools(DecodeSeq(Bool, Len(bp.bools), h.dec, ctx, <<>>), ctx)
         Claim(c) == Header(DsDecodeHeader(c.dec, c.v), c.v)
         Read(r, f) ==
           bp' = [bp EXCEPT !.pc = "read",
                            !.got = [ok |-> r.ok /\ ~r.dec.panic, bools |-> r.v,
                                     byte |-> 0],
                            !.got_fields = f]
     IN  Read(decode_new(Vec(Bool), DecoderNew(bp.array, <<>>), DefaultContext, 0),
              Claim(DecoderClaim(DecoderNew(bp.fields, <<>>), 0)))
  /\ UNCHANGED <<main, vt, mp>>

BpNext == BpEncode \/ BpDecode

BoolSpec == BpInit /\ [][BpNext]_vars

\* ------------------------------------------------------------------------
\* Properties
\* ------------------------------------------------------------------------
Returned == pc \in {"decoded", "rejected"}

Failed(e) == res.kind = "err" /\ res.err = e

\* Two values of the root type are equal; a map is compared as the set of its
\* entries, its iteration order being unspecified.
SameValue(t, a, b) ==
  IF t.f.k = "map"
  THEN Len(a.param0) = Len(b.param0) /\ Range(a.param0) = Range(b.param0)
  ELSE a = b

AllSlots == 0..(Len(handles) - 1)

\* C1: round trip. deserialize of the bytes and handles auto_serialize made
\* of v returns Ok(v') with v' equal to v, handles by identity, and every slot
\* of the handle vector has been claimed.
C1_RoundTrip ==
  pc = "decoded" =>
    /\ res.kind = "ok"
    /\ SameValue(ty, res.v, val)
    /\ dlog.slots = AllSlots

C1_Witness ==
  /\ pc = "decoded"
  /\ ty = StructA(Map(U8, UntypedHandle))
  /\ Len(val.param0) = 2
  /\ res.kind = "ok"
  /\ dlog.slots = {0, 1}

C3_Alignment ==
  \A i \in 1..Len(elog.regions) : elog.regions[i].off % 8 = 0

C3_Witness ==
  /\ pc = "message"
  /\ \E i \in 1..(Len(elog.regions) - 1) :
       /\ elog.regions[i].size % 8 # 0
       /\ elog.regions[i + 1].off % 8 = 0

\* C4: pointers point forward. Regions are reserved append-only, and every
\* non-null pointer written targets a region that starts after the pointer
\* field itself: the delta stored in the field is positive.
C4_PointerForward ==
  /\ \A i \in 1..(Len(elog.regions) - 1) :
       elog.regions[i + 1].off >= elog.regions[i].off + elog.regions[i].size
  /\ \A i \in 1..Len(elog.ptrs) :
       /\ elog.ptrs[i].target > elog.ptrs[i].loc
       /\ \E j \in 1..Len(elog.regions) :
            elog.regions[j].off = elog.ptrs[i].target
       /\ pc = "message" =>
            /\ PointerAt(elog.ptrs[i].loc) = elog.ptrs[i].target
            /\ FromLE(SubSeq(buffer, elog.ptrs[i].loc + 1, elog.ptrs[i].loc + 8)) > 0

C4_Witness ==
  /\ pc = "message"
  /\ ty = StructA(Map(Str, U8))
  /\ Len(elog.ptrs) = 5

\* C5: handle conservation. Serializing v puts into the handle vector the
\* handles v owns, each once, and the index written inline is the handle's
\* position; a successful decode hands out those handles, each slot once.
C5_HandleConservation ==
  /\ pc = "message" =>
       /\ handles = HandleSeq(ty, val)
       /\ NoRepeat(handles)
  /\ pc = "decoded" =>
       /\ res.kind = "ok"
       /\ HandleSeq(ty, res.v) = handles
       /\ dlog.hreads = [i \in 1..Len(handles) |-> i - 1]
  /\ (Returned /\ res.kind = "ok") =>
       /\ NoRepeat(dlog.hreads)
       /\ NoRepeat(HandleSeq(ty, res.v))
       /\ HandleSet(ty, res.v) \subseteq {handles[i + 1] : i \in dlog.slots}

C5_Witness ==
  /\ pc = "decoded"
  /\ ty = StructA(Arr(UntypedHandle, STRUCT_A_ARITY))
  /\ Len(handles) = STRUCT_A_ARITY
  /\ dlog.hreads = <<0, 1, 2>>
  /\ res.kind = "ok"

\* The k-th handle index decoded is not below the length of the handle vector,
\* or is one decoded, and so claimed, before it.
BadHandleIndex(k) ==
  \/ dlog.hreads[k] >= Len(handles)
  \/ \E j \in 1..(k - 1) : dlog.hreads[j] = dlog.hreads[k]

\* C6: a handle field whose index is not below the length of the handle
\* vector, or whose slot was already claimed, fails with IllegalHandle, the
\* decode stops there, and deserialize returns that error through the
\* fixed-length array and the struct: a message that refers to 3 handles,
\* with its handle vector truncated, is Err(IllegalHandle) and never Ok.
C6_IllegalHandle ==
  Returned =>
    /\ \A k \in 1..Len(dlog.hreads) :
         BadHandleIndex(k) => (k = Len(dlog.hreads) /\ Failed("IllegalHandle"))
    /\ (alt = "truncated" /\ ty = StructA(Arr(UntypedHandle, STRUCT_A_ARITY)))
         => Failed("IllegalHandle")

C6_Witness ==
  /\ pc = "rejected"
  /\ alt = "truncated"
  /\ ty = StructA(Arr(UntypedHandle, STRUCT_A_ARITY))
  /\ Len(handles) = 1
  /\ dlog.hreads = <<0, 1>>
  /\ Failed("IllegalHandle")

\* C7: when deserialize returns a validation error, every slot of the handle
\* vector it was given that was not claimed before the failure is closed once
\* it has returned.
C7_UnclaimedClosed ==
  (Returned /\ res.kind = "err") =>
    \A i \in AllSlots : i \notin dlog.slots => handles[i + 1] \notin open

C7_Witness ==
  /\ pc = "rejected"
  /\ res.kind = "err"
  /\ Len(handles) >= 2
  /\ dlog.slots = {0}
  /\ handles[2] \notin open

\* C8: when the decode of a fixed-length array of handles fails at an element
\* i > 0, no handle of the handle vector deserialize was given is open after
\* it has returned.
C8_NoInputHandleOpen ==
  (/\ pc = "rejected"
   /\ res.kind = "err"
   /\ ty = StructA(Arr(UntypedHandle, STRUCT_A_ARITY))
   /\ dlog.slots # {})
    => \A i \in 1..Len(handles) : handles[i] \notin open

\* The k-th claim is of an offset that is not 8-byte aligned, is past the end
\* of the buffer, or is inside a region claimed before it.
BadClaim(k) ==
  LET o == dlog.attempts[k].off
  IN  \/ o % 8 # 0
      \/ o >= Len(buffer)
      \/ \E j \in 1..(k - 1) :
           /\ dlog.attempts[j].ok
           /\ dlog.attempts[j].off <= o
           /\ o < dlog.attempts[j].off + SizeAt(dlog.attempts[j].off)

\* C9: a claim of an offset that is misaligned, past the end of the buffer or
\* inside a region already claimed is refused, the decode stops there and
\* deserialize returns IllegalPointer; the regions whose headers a decode
\* read are aligned, inside the buffer, pairwise disjoint, and no offset is
\* among them twice.
C9_Claim ==
  Returned =>
    /\ \A k \in 1..Len(dlog.attempts) :
         BadClaim(k) =>
           /\ k = Len(dlog.attempts)
           /\ ~dlog.attempts[k].ok
           /\ Failed("IllegalPointer")
    /\ NoRepeat(dlog.visited)
    /\ \A i \in 1..Len(dlog.visited) :
         /\ dlog.visited[i] % 8 = 0
         /\ dlog.visited[i] + DATA_HEADER_SIZE <= Len(buffer)
         /\ \A j \in 1..(i - 1) :
              \/ dlog.visited[i] >= dlog.visited[j] + SizeAt(dlog.visited[j])
              \/ dlog.visited[i] + SizeAt(dlog.visited[i]) <= dlog.visited[j]

C9_Witness ==
  /\ pc = "rejected"
  /\ Failed("IllegalPointer")
  /\ Len(dlog.attempts) >= 3
  /\ \E j \in 1..(Len(dlog.attempts) - 1) :
       /\ dlog.attempts[j].ok
       /\ dlog.attempts[j].off = dlog.attempts[Len(dlog.attempts)].off

\* The map region of the message, and its keys and values arrays.

\* C10: a map whose keys array and values array have different element
\* counts decodes to DifferentSizedArraysInMap; a map that decoded
\* successfully was read from two arrays of equal element count.
C10_ParallelArrays ==
  (Returned /\ ty.f.k = "map") =>
    /\ \A i \in 1..Len(dlog.maps) :
         /\ dlog.maps[i].keys = CountAt(KeysAt)
         /\ dlog.maps[i].vals = CountAt(ValsAt)
         /\ dlog.maps[i].keys # dlog.maps[i].vals
              => Failed("DifferentSizedArraysInMap")
    /\ res.kind = "ok" =>
         /\ Len(dlog.maps) = 1
         /\ CountAt(KeysAt) = CountAt(ValsAt)
         /\ Len(res.v.param0) <= CountAt(KeysAt)

C10_Witness ==
  /\ pc = "rejected"
  /\ ty.f.k = "map"
  /\ Len(dlog.maps) = 1
  /\ dlog.maps[1].keys # dlog.maps[1].vals
  /\ Failed("DifferentSizedArraysInMap")

\* The 8 bytes of the pointer field at wire offset loc are all zero.
NullPointerAt(loc) == \A i \in 1..8 : buffer[loc + i] = 0

\* The map decode got as far as the two pointers of the map struct.
MapPointersRead ==
  /\ ty.f.k = "map"
  /\ MapAt \in Range(dlog.visited)
  /\ SizeAt(MapAt) = MAP_SIZE
  /\ CountAt(MapAt) = 0

\* C11: a null pointer where the type is not nullable is UnexpectedNullPointer.
\* A map struct whose keys pointer or values pointer is 0, and a union nested
\* in a union whose inline pointer is 0, make deserialize return
\* Err(UnexpectedNullPointer): not IllegalPointer, and never a value.
C11_NullPointer ==
  Returned =>
    /\ (MapPointersRead
          /\ (\/ NullPointerAt(MapAt + DATA_HEADER_SIZE)
              \/ NullPointerAt(MapAt + DATA_HEADER_SIZE + 8)))
         => Failed("UnexpectedNullPointer")
    /\ \A i \in 1..Len(dlog.unions) :
         (dlog.unions[i].nested
            /\ NullPointerAt(dlog.unions[i].base + dlog.unions[i].from))
           => Failed("UnexpectedNullPointer")

C11_Witness ==
  /\ pc = "rejected"
  /\ ty = StructA(Vec(UnionA))
  /\ \E i \in 1..Len(dlog.unions) :
       /\ dlog.unions[i].nested
       /\ NullPointerAt(dlog.unions[i].base + dlog.unions[i].from)
  /\ Failed("UnexpectedNullPointer")

C11_WitnessMap ==
  /\ pc = "rejected"
  /\ MapPointersRead
  /\ ~NullPointerAt(MapAt + DATA_HEADER_SIZE)
  /\ NullPointerAt(MapAt + DATA_HEADER_SIZE + 8)
  /\ Failed("UnexpectedNullPointer")

\* The array of handles that are not nullable, in the messages that have one:
\* the array of StructA<[UntypedHandle; 3]> and the values of a map of handles.
HasHandleArray ==
  \/ ty.f.k = "arr"
  \/ (ty.f.k = "map" /\ ty.f.val.k = "handle")
HandlesAt == IF ty.f.k = "arr" THEN PointerAt(DATA_HEADER_SIZE) ELSE ValsAt

\* The 4 bytes of the handle field at wire offset loc are the null sentinel.
NullHandleAt(loc) == \A i \in 1..4 : buffer[loc + i] = 255

HeaderAt(off) == <<CountAt(off), SizeAt(off)>>

\* C13: decode_struct_header succeeds only when the (version, size) pair of
\* the header is an entry of the version table, exactly; any other pair is
\* UnexpectedStructHeader. The table of StructA is its STRUCT_A_VERSIONS, the
\* table of a map is the one entry (version 0, size 24).
C13_StructHeader ==
  /\ MAP_VERSIONS = <<<<0, 24>>>>
  /\ (Returned /\ 0 \in Range(dlog.visited)) =>
       /\ (HeaderAt(0) \notin Range(STRUCT_A_VERSIONS))
            <=> (Failed("UnexpectedStructHeader") /\ dlog.visited = <<0>>)
       /\ (ty.f.k = "map" /\ MapAt \in Range(dlog.visited)) =>
            ((HeaderAt(MapAt) # <<0, 24>>)
               <=> (Failed("UnexpectedStructHeader") /\ dlog.visited = <<0, MapAt>>))

C13_Witness ==
  /\ pc = "rejected"
  /\ ty.f.k = "map"
  /\ dlog.visited = <<0, MapAt>>
  /\ HeaderAt(MapAt) = <<0, 16>>
  /\ Failed("UnexpectedStructHeader")

C13_WitnessVersion ==
  /\ pc = "rejected"
  /\ dlog.visited = <<0>>
  /\ HeaderAt(0) = <<1, STRUCT_A_SIZE>>
  /\ Failed("UnexpectedStructHeader")

\* The table the receiver decodes against, and its largest version.
VtTable == SubSeq(vt.hist, 1, vt.known)
VtLargest == vt.hist[vt.known][1]
VtHeader == <<FromLE(SubSeq(vt.wire, 5, 8)), FromLE(SubSeq(vt.wire, 1, 4))>>

C14_WitnessNewer ==
  /\ vt.pc = "read"
  /\ vt.known = 1
  /\ vt.sent = 2
  /\ vt.res = "UnexpectedStructHeader"

\* C15: decode_array_header succeeds only when the size in the header is
\* 8 + ceil(n * embed bits / 8) for the element count n in the header; any
\* other size is UnexpectedArrayHeader. That size is the serialized_size the
\* encoder wrote: 8 for an empty array.
C15_ArrayHeader ==
  HasArray =>
    /\ (pc # "value" /\ alt = "none") =>
         /\ SizeAt(ArrAt) = serialized_size(ty.f, val.param0, DefaultContext)
         /\ CountAt(ArrAt) = Len(val.param0)
         /\ ArraySizeFits(ArrAt)
         /\ Len(val.param0) = 0 => SizeAt(ArrAt) = DATA_HEADER_SIZE
    /\ (Returned /\ Len(dlog.visited) >= 2 /\ dlog.visited[2] = ArrAt) =>
         /\ ~ArraySizeFits(ArrAt)
              => (Failed("UnexpectedArrayHeader") /\ dlog.visited = <<0, ArrAt>>)
         /\ res.kind = "ok" => ArraySizeFits(ArrAt)

C15_Witness ==
  /\ pc = "rejected"
  /\ ty = StructA(Vec(Bool))
  /\ Len(val.param0) = 2
  /\ dlog.visited = <<0, ArrAt>>
  /\ SizeAt(ArrAt) = DATA_HEADER_SIZE + 1
  /\ CountAt(ArrAt) = 16
  /\ Failed("UnexpectedArrayHeader")

\* The handle index in element i of the array of handles, as the i32 read.
HandleIndexAt(i) ==
  FromLEi32(SubSeq(buffer, HandlesAt + DATA_HEADER_SIZE + 4 * (i - 1) + 1,
                   HandlesAt + DATA_HEADER_SIZE + 4 * i))

\* C16: a [T; N] whose array header is a valid header of another element
\* count is UnexpectedArrayHeader, before any element is decoded or any
\* handle claimed; with the count N, the elements are decoded in wire order,
\* N of them when the decode succeeds.
C16_FixedArity ==
  (Returned /\ ty.f.k = "arr" /\ Len(dlog.visited) >= 2 /\ ArraySizeFits(ArrAt)) =>
    /\ CountAt(ArrAt) # ty.f.n =>
         /\ Failed("UnexpectedArrayHeader")
         /\ dlog.hreads = <<>>
         /\ dlog.slots = {}
    /\ CountAt(ArrAt) = ty.f.n =>
         /\ Len(dlog.hreads) <= ty.f.n
         /\ \A i \in 1..Len(dlog.hreads) : dlog.hreads[i] = HandleIndexAt(i)
         /\ res.kind = "ok" =>
              /\ Len(dlog.hreads) = ty.f.n
              /\ \A i \in 1..ty.f.n : res.v.param0[i] = handles[HandleIndexAt(i) + 1]

C16_Witness ==
  /\ pc = "rejected"
  /\ alt = "recounted"
  /\ ty.f.k = "arr"
  /\ ArraySizeFits(ArrAt)
  /\ CountAt(ArrAt) = ty.f.n + 1
  /\ dlog.visited = <<0, ArrAt>>
  /\ dlog.hreads = <<>>
  /\ Failed("UnexpectedArrayHeader")

C16_WitnessOrder ==
  /\ pc = "decoded"
  /\ ty.f.k = "arr"
  /\ val.param0 = <<12, 11, 13>>
  /\ res.kind = "ok"
  /\ res.v.param0 = <<12, 11, 13>>
  /\ dlog.hreads = <<0, 1, 2>>

\* The messages whose root field is an Option or a vector of Options: the
\* Option type, the Options of a value of the root type in wire order, and
\* the wire offset of the field of the i-th of them.
HasOption == ty.f.k = "opt" \/ (ty.f.k = "vec" /\ ty.f.e.k = "opt")
OptionType == IF ty.f.k = "opt" THEN ty.f ELSE ty.f.e
Options(v) == IF ty.f.k = "opt" THEN <<v.param0>> ELSE v.param0
OptionAt(i) ==
  IF ty.f.k = "opt" THEN DATA_HEADER_SIZE
  ELSE ArrAt + DATA_HEADER_SIZE
         + (i - 1) * (embed_size(OptionType.e, DefaultContext) \div 8)

\* The field at loc is all zero over w bytes.
ZeroAt(loc, w) == \A i \in 1..w : buffer[loc + i] = 0

\* The field at loc holds the null sentinel of the category: as Option::encode
\* writes it, and as the skip_if_null_* of the category recognizes it.
NullWritten(category, loc) ==
  CASE category = "Pointer" -> ZeroAt(loc, 8)
    [] category = "Union" -> ZeroAt(loc, UNION_SIZE)
    [] category = "Handle" -> NullHandleAt(loc)
    [] category = "Interface" -> NullHandleAt(loc) /\ ZeroAt(loc + 4, 4)
NullRead(category, loc) ==
  IF category = "Interface" THEN NullHandleAt(loc) ELSE NullWritten(category, loc)

C17_WitnessUnion ==
  /\ pc = "decoded"
  /\ ty = StructA(Vec(Opt(UnionA)))
  /\ Len(val.param0) = 2
  /\ val.param0[1] = <<>>
  /\ val.param0[2] # <<>>
  /\ res.kind = "ok"

C17_WitnessNulled ==
  /\ pc = "rejected"
  /\ alt = "poked"
  /\ ty = StructA(Opt(Vec(U8)))
  /\ val.param0 # <<>>
  /\ res.kind = "ok"
  /\ res.v.param0 = <<>>

\* C18: send_request. With the interface's version below the request's
\* min_version it returns OldVersion(version, min_version) and neither
\* serializes nor writes; otherwise it makes the message and writes it to the
\* pipe once, returning Ok when the write returned Okay and FailedWrite(code)
\* when it returned another code.
C18_SendRequest ==
  mp.pc \in {"sent", "received"} =>
    /\ mp.version < mp.min_version =>
         /\ mp.sent.res = SendResult("OldVersion", mp.version, mp.min_version)
         /\ mp.sent.made = 0
         /\ mp.sent.writes = <<>>
    /\ mp.version >= mp.min_version =>
         /\ mp.sent.made = 1
         /\ Len(mp.sent.writes) = 1
         /\ mp.sent.writes[1] = create_request(mp.req_id, mp.t, mp.v)
         /\ mp.pipe = Okay => mp.sent.res = SendResult("Ok", 0, 0)
         /\ mp.pipe # Okay => mp.sent.res = SendResult("FailedWrite", mp.pipe, 0)

C18_Witness ==
  /\ mp.pc = "sent"
  /\ mp.version = 1
  /\ mp.min_version = 2
  /\ mp.sent.res = SendResult("OldVersion", 1, 2)
  /\ mp.sent.writes = <<>>

C18_WitnessFailedWrite ==
  /\ mp.pc = "sent"
  /\ mp.version = mp.min_version
  /\ mp.sent.res = SendResult("FailedWrite", 9, 0)
  /\ Len(mp.sent.writes) = 1

\* The request id in the header of the message in the pipe.
RequestIdAt == FromLE(SubSeq(mp.buffer, MESSAGE_HEADER_SIZE - 8 + 1, MESSAGE_HEADER_SIZE))

\* C19: decode_message decodes the header first, with an empty handle vector,
\* and then the payload from the bytes after the header's serialized size
\* with the whole handle vector; the request id returned is the header's; an
\* error of the header's decode is returned and the payload is not decoded.
C19_DecodeMessage ==
  mp.pc = "received" =>
    /\ mp.got.header_read
    /\ mp.got.header_handles = <<>>
    /\ mp.got.payload_read =>
         /\ mp.got.payload_from = MESSAGE_HEADER_SIZE
         /\ mp.got.payload_handles = mp.handles
         /\ mp.got.kind = "ok" => mp.got.req_id = RequestIdAt
    /\ ~mp.got.payload_read =>
         /\ mp.got.kind = "err"
         /\ mp.got.err \in {"IllegalPointer", "UnexpectedStructHeader"}
         /\ mp.got.v = <<>>
    /\ mp.buffer = mp.sent.writes[1].buf =>
         /\ mp.got.kind = "ok"
         /\ mp.got.req_id = mp.req_id
         /\ mp.got.v = mp.v

C19_Witness ==
  /\ mp.pc = "received"
  /\ mp.t = StructA(Arr(UntypedHandle, STRUCT_A_ARITY))
  /\ mp.req_id = 300
  /\ mp.got.kind = "ok"
  /\ mp.got.req_id = 300
  /\ mp.got.payload_handles = mp.v.param0

C19_WitnessHeaderError ==
  /\ mp.pc = "received"
  /\ mp.got.kind = "err"
  /\ mp.got.err = "UnexpectedStructHeader"
  /\ ~mp.got.payload_read

\* A union as the encoder or the decoder went over it: where its cell or its
\* pointer starts in the parent region and where the cursor was left.
Span(u) == [nested |-> u.nested, base |-> u.base, from |-> u.from,
            to |-> u.to, bit |-> u.bit]

\* The union logged as u was encoded nested: 8 bytes of the parent region
\* hold a pointer to a fresh 16-byte region whose header carries the tag.
NestedEmbedding(u) ==
  /\ u.from % 8 = 0
  /\ u.to = u.from + 8
  /\ u.bit = 0
  /\ \E i \in 1..Len(elog.regions) :
       /\ elog.regions[i].off = PointerAt(u.base + u.from)
       /\ elog.regions[i].size = UNION_SIZE
  /\ SizeAt(PointerAt(u.base + u.from)) = UNION_SIZE
  /\ CountAt(PointerAt(u.base + u.from)) = u.tag

\* The union logged as u was encoded inline: a 16-byte cell of the parent
\* region, from an 8-byte boundary to the next but one, holding the size 16
\* and the tag.
InlineEmbedding(u) ==
  /\ u.from % 8 = 0
  /\ SizeAt(u.base + u.from) = UNION_SIZE
  /\ CountAt(u.base + u.from) = u.tag
  /\ u.to = u.from + UNION_SIZE
  /\ u.bit = 0

\* C20: union embedding. A union encoded inline takes exactly 16 bytes of its
\* parent region, starts on an 8-byte boundary and leaves the cursor on one;
\* a union encoded nested writes only a 64-bit pointer inline, to a fresh
\* 16-byte region whose header carries the tag; the decoder's cursor moves by
\* the same amounts as the encoder's.
C20_UnionEmbedding ==
  (pc # "value" /\ alt = "none") =>
    /\ \A i \in 1..Len(elog.unions) :
         IF elog.unions[i].nested THEN NestedEmbedding(elog.unions[i])
         ELSE InlineEmbedding(elog.unions[i])
    /\ pc = "decoded" =>
         /\ Len(dlog.unions) = Len(elog.unions)
         /\ \A i \in 1..Len(dlog.unions) : dlog.unions[i] = Span(elog.unions[i])

\* C20, the part that holds: every nested union, every inline union that
\* holds another variant than a bool, and the decoder on every union. The
\* cell of an inline union that holds a bool starts where it must and the
\* next cell of the array after it does too.
C20_ButForBool ==
  (pc # "value" /\ alt = "none") =>
    /\ \A i \in 1..Len(elog.unions) :
         LET u == elog.unions[i]
         IN  IF u.nested THEN NestedEmbedding(u)
             ELSE IF u.tag # 0 THEN InlineEmbedding(u)
             ELSE u.from % 8 = 0 /\ u.to = u.from + DATA_HEADER_SIZE + 1 /\ u.bit = 0
    /\ pc = "decoded" =>
         /\ res.kind = "ok" /\ res.v = val
         /\ Len(dlog.unions) = Len(elog.unions)
         /\ \A i \in 1..Len(dlog.unions) :
              /\ dlog.unions[i].from = elog.unions[i].from
              /\ dlog.unions[i].from % 8 = 0
              /\ dlog.unions[i].bit = 0
              /\ dlog.unions[i].to
                   = dlog.unions[i].from
                       + (IF dlog.unions[i].nested THEN 8 ELSE UNION_SIZE)

C20_Witness ==
  /\ pc = "decoded"
  /\ ty = StructA(Vec(UnionA))
  /\ Len(val.param0) = 2
  /\ val.param0[1].tag = 0
  /\ val.param0[2].tag = 1
  /\ Len(elog.unions) = 3
  /\ elog.unions[1].to = elog.unions[1].from + DATA_HEADER_SIZE + 1
  /\ dlog.unions[1].to = dlog.unions[1].from + UNION_SIZE
  /\ res.kind = "ok"

\* The errors the decoder raised, as places of its trace, and the decode calls
\* it made.
ErrorsRaised == {i \in 1..Len(dlog.trace) : dlog.trace[i].what = "error"}
DecodeCalls == {i \in 1..Len(dlog.trace) : dlog.trace[i].what = "decode"}

\* C21: the first validation error ends the decode and is what deserialize
\* returns. A deserialize that returned Ok raised no error; one that returned
\* an error raised exactly one, the one it returned, and did nothing after it:
\* no element, key, value or field was decoded, no region and no handle was
\* claimed once the error was raised.
C21_FirstError ==
  (Returned /\ res.kind # "panic") =>
    /\ res.kind = "ok" => ErrorsRaised = {}
    /\ res.kind = "err" =>
         /\ ErrorsRaised = {Len(dlog.trace)}
         /\ dlog.trace[Len(dlog.trace)].err = res.err

\* A vector of two strings whose first element failed: the field and the first
\* element were decoded, the second element never was.
C21_Witness ==
  /\ pc = "rejected"
  /\ ty = StructA(Vec(Str))
  /\ Len(val.param0) = 2
  /\ res.kind = "err"
  /\ Cardinality(DecodeCalls) = 2
  /\ dlog.trace[Len(dlog.trace)].err = res.err

\* A map whose second value failed to claim its handle: the error is the
\* handle's, raised last.
C21_WitnessMapValue ==
  /\ pc = "rejected"
  /\ ty = StructA(Map(U8, UntypedHandle))
  /\ Len(val.param0) = 2
  /\ Failed("IllegalHandle")
  /\ Cardinality(dlog.slots) = 1
  /\ dlog.trace[Len(dlog.trace)].err = "IllegalHandle"
\* The bytes of its region, after the data header, that a cursor has used.
Consumed(c) == c.pos + (IF c.bit > 0 THEN 1 ELSE 0) - DATA_HEADER_SIZE

Encoded == pc \in {"message", "decoded"} /\ ~elog.failed

\* Within one region every write leaves the cursor further on than the write
\* before it did, and inside the size the region's data header declares.
CursorAdvances ==
  /\ \A i, j \in 1..Len(elog.cursors) :
        (i < j /\ elog.cursors[i].base = elog.cursors[j].base) =>
          8 * elog.cursors[i].pos + elog.cursors[i].bit
            < 8 * elog.cursors[j].pos + elog.cursors[j].bit
  /\ \A i \in 1..Len(elog.cursors) :
        /\ elog.cursors[i].size = SizeAt(elog.cursors[i].base)
        /\ DATA_HEADER_SIZE + Consumed(elog.cursors[i]) <= elog.cursors[i].size
  /\ \A i \in 1..Len(elog.ends) :
        DATA_HEADER_SIZE + Consumed(elog.ends[i]) <= SizeAt(elog.ends[i].off)

\* The inline bytes the encode_value of the region logged as e should use.
InlineBytes(e) ==
  IF e.k = "map" THEN 2 * (POINTER_BIT_SIZE \div 8)
  ELSE AsBytes(CountAt(e.off) * e.bits)

IsArrayEnd(e) == e.k \in {"vec", "box", "arr", "string", "keys"}

\* The last element of the array region logged as e is a union encoded in
\* place that holds its bool variant.
EndsWithBoolUnion(e) ==
  /\ IsArrayEnd(e)
  /\ e.bits = UNION_INLINE_EMBED_SIZE
  /\ \E i \in 1..Len(elog.unions) :
        /\ ~elog.unions[i].nested
        /\ elog.unions[i].base = e.off
        /\ elog.unions[i].tag = 0
        /\ elog.unions[i].from =
             DATA_HEADER_SIZE + UNION_SIZE * (CountAt(e.off) - 1)

\* C22: within one region the encoding cursor only advances and never passes
\* the size in the region's data header; the encode_value of an array of n
\* elements uses exactly ceil(n * embed_bits(T) / 8) bytes after the header,
\* which is serialized_size - 8, and that of a map the 16 bytes of its two
\* pointers.
C22_CursorInRegion ==
  Encoded =>
    /\ CursorAdvances
    /\ \A i \in 1..Len(elog.ends) :
          /\ (IsArrayEnd(elog.ends[i]) \/ elog.ends[i].k = "map") =>
                Consumed(elog.ends[i]) = InlineBytes(elog.ends[i])
          /\ IsArrayEnd(elog.ends[i]) =>
                Consumed(elog.ends[i]) = SizeAt(elog.ends[i].off) - DATA_HEADER_SIZE

\* The same, but for the arrays whose last element is a union encoded in place
\* that holds its bool variant: those use 7 bytes less.
C22_ButForBoolUnion ==
  Encoded =>
    /\ CursorAdvances
    /\ \A i \in 1..Len(elog.ends) :
          IF EndsWithBoolUnion(elog.ends[i])
          THEN Consumed(elog.ends[i]) = InlineBytes(elog.ends[i]) - 7
          ELSE /\ (IsArrayEnd(elog.ends[i]) \/ elog.ends[i].k = "map") =>
                     Consumed(elog.ends[i]) = InlineBytes(elog.ends[i])
               /\ IsArrayEnd(elog.ends[i]) =>
                     Consumed(elog.ends[i])
                       = SizeAt(elog.ends[i].off) - DATA_HEADER_SIZE

\* A map of two entries with string keys: the map region, its keys region and
\* its values region have all been ended, and so has each key's region.
C22_Witness ==
  /\ pc = "message"
  /\ ty = StructA(Map(Str, U8))
  /\ Len(val.param0) = 2
  /\ Len(elog.ends) = 6
  /\ \E i \in 1..Len(elog.ends) :
        elog.ends[i].k = "map" /\ Consumed(elog.ends[i]) = 16
  /\ \E i \in 1..Len(elog.ends) :
        elog.ends[i].k = "keys" /\ Consumed(elog.ends[i]) = 8 * 2

\* Five bools: one byte used after the header, the cursor at bit 5.
C22_WitnessBools ==
  /\ pc = "message"
  /\ ty = StructA(Vec(Bool))
  /\ Len(val.param0) = MaxLen
  /\ \E i \in 1..Len(elog.ends) :
        /\ elog.ends[i].k = "vec"
        /\ elog.ends[i].bit = MaxLen
        /\ Consumed(elog.ends[i]) = 1
\* Bit b of the byte at wire offset off of the bytes bs.
BitAt(bs, off, b) == (bs[off + 1] \div (2 ^ b)) % 2 = 1

\* C23: bools are bit-packed. The region of an array of n bools has size
\* 8 + ceil(n / 8) and count n; element i (from 0) is bit i mod 8 of payload
\* byte floor(i / 8); a u8 written after a run of n bools is written at the
\* next byte boundary, payload byte ceil(n / 8); and decoding returns the same
\* bools in the same order, and the u8.
C23_BoolPacking ==
  bp.pc \in {"encoded", "read"} =>
    LET n == Len(bp.bools)
    IN  /\ FromLE(SubSeq(bp.array, 1, 4)) = DATA_HEADER_SIZE + (n + 7) \div 8
        /\ FromLE(SubSeq(bp.array, 5, 8)) = n
        /\ \A i \in 0..(n - 1) :
              /\ BitAt(bp.array, DATA_HEADER_SIZE + i \div 8, i % 8) = bp.bools[i + 1]
              /\ BitAt(bp.fields, DATA_HEADER_SIZE + i \div 8, i % 8) = bp.bools[i + 1]
        /\ bp.fields[DATA_HEADER_SIZE + (n + 7) \div 8 + 1] = bp.byte
        /\ bp.at = DATA_HEADER_SIZE + (n + 7) \div 8 + 1
        /\ bp.pc = "read" =>
              /\ bp.got = [ok |-> TRUE, bools |-> bp.bools, byte |-> 0]
              /\ bp.got_fields = [ok |-> TRUE, bools |-> bp.bools, byte |-> bp.byte]

\* Nine bools, the ninth true: it is bit 0 of the second payload byte, and the
\* u8 after the run is in the third.
C23_Witness ==
  /\ bp.pc = "read"
  /\ Len(bp.bools) = MaxBools
  /\ bp.bools[MaxBools]
  /\ ~bp.bools[1] /\ bp.bools[2]
  /\ BitAt(bp.array, DATA_HEADER_SIZE + 1, 0)
  /\ bp.array[DATA_HEADER_SIZE + 1] % 4 = 2
  /\ bp.at = DATA_HEADER_SIZE + 3
  /\ bp.got_fields.byte = bp.byte
\* The types that can hold the element sequence v of a value of the array or
\* string type t: Vec<T>, Box<[T]> and [T; N] with N the length of v, and for
\* bytes that are UTF-8 also String.
Siblings(t, v) ==
  LET et == IF t.k = "string" THEN U8 ELSE t.e
  IN  {Vec(et), BoxSlice(et), Arr(et, Len(v))}
        \cup (IF et = U8 /\ from_utf8_ok(v) THEN {Str} ELSE {})

\* C24: Vec<T>, [T; N] and Box<[T]> holding the same elements, and a String
\* and the Vec<u8> of its bytes, have the same encoding and the same
\* compute_size, and the bytes any of them wrote decode as any of the others
\* to the same elements. The region of a string of len bytes has the header
\* {size = 8 + len, num_elements = len} and then the bytes.
C24_SameWire ==
  (pc \in {"message", "decoded"} /\ ~elog.failed /\ HasArray) =>
    /\ \A s \in Siblings(ty.f, val.param0) :
          /\ auto_serialize(StructA(s), val).buf = buffer
          /\ auto_serialize(StructA(s), val).handles = handles
          /\ compute_size(s, val.param0, DefaultContext)
               = compute_size(ty.f, val.param0, DefaultContext)
          /\ deserialize(StructA(s), buffer, handles).ok
          /\ ~deserialize(StructA(s), buffer, handles).dec.panic
          /\ deserialize(StructA(s), buffer, handles).v = val
    /\ ty.f.k = "string" =>
          /\ SizeAt(ArrAt) = DATA_HEADER_SIZE + Len(val.param0)
          /\ CountAt(ArrAt) = Len(val.param0)
          /\ SubSeq(buffer, ArrAt + DATA_HEADER_SIZE + 1,
                    ArrAt + DATA_HEADER_SIZE + Len(val.param0)) = val.param0

\* The string 'hello': size 13, 5 elements, and the bytes the Vec<u8>, the
\* Box<[u8]> and the [u8; 5] of its bytes have.
C24_Witness ==
  /\ pc = "decoded"
  /\ ty = StructA(Str)
  /\ val.param0 = <<104, 101, 108, 108, 111>>
  /\ SizeAt(ArrAt) = 13
  /\ CountAt(ArrAt) = 5
  /\ Cardinality(Siblings(ty.f, val.param0)) = 4
  /\ auto_serialize(StructA(Arr(U8, 5)), val).buf = buffer
  /\ res.kind = "ok"

\* Three handles in a [T; 3]: the Vec and the Box of the same handles have the
\* same bytes and the same handle vector.
C24_WitnessHandles ==
  /\ pc = "message"
  /\ ty = StructA(Arr(UntypedHandle, STRUCT_A_ARITY))
  /\ auto_serialize(StructA(Vec(UntypedHandle)), val).buf = buffer
  /\ auto_serialize(StructA(BoxSlice(UntypedHandle)), val).handles = handles
  /\ Len(handles) = STRUCT_A_ARITY
\* The root struct's field is a string whose region can be claimed and has a
\* valid array header: the root's header and pointer are as serialized, the
\* region is inside the message and its size is that of its count of bytes.
StringHeaderValid ==
  /\ ty.f.k = "string"
  /\ SizeAt(0) = STRUCT_A_SIZE
  /\ CountAt(0) = 0
  /\ ArrAt = STRUCT_A_SIZE
  /\ ArraySizeFits(ArrAt)
  /\ ArrAt + SizeAt(ArrAt) <= Len(buffer)

StringBytes ==
  SubSeq(buffer, ArrAt + DATA_HEADER_SIZE + 1,
         ArrAt + DATA_HEADER_SIZE + CountAt(ArrAt))

\* C25: decoding a string region whose header is valid but whose bytes are not
\* UTF-8 is fatal: deserialize panics, it returns no validation error and no
\* String. (Bytes that are UTF-8 are returned as the String.)
C25_Utf8Fatal ==
  (Returned /\ StringHeaderValid) =>
    IF from_utf8_ok(StringBytes)
    THEN res.kind = "ok" /\ res.v = [param0 |-> StringBytes]
    ELSE res.kind = "panic" /\ res.v = <<>>

\* A byte of the string was altered to 255, which no UTF-8 text holds.
C25_Witness ==
  /\ pc = "rejected"
  /\ alt = "poked"
  /\ StringHeaderValid
  /\ Len(StringBytes) = 5
  /\ StringBytes[1] = 255
  /\ res.kind = "panic"

\* The count of a two-byte character's string was altered to one: the bytes
\* end inside the character.
C25_WitnessCutShort ==
  /\ pc = "rejected"
  /\ alt = "recounted"
  /\ StringHeaderValid
  /\ val.param0 = <<195, 169>>
  /\ StringBytes = <<195>>
  /\ res.kind = "panic"
\* The maps whose keys are stored in the keys array itself (u8 or bool keys),
\* and the key and the value at place i (from 1) of the two arrays of the
\* message.
InlineKeys == ty.f.k = "map" /\ ty.f.key.k \in {"prim", "bool"}

StringAt(off) ==
  SubSeq(buffer, off + DATA_HEADER_SIZE + 1, off + DATA_HEADER_SIZE + CountAt(off))

WireKey(i) ==
  CASE ty.f.key.k = "bool" ->
         BitAt(buffer, KeysAt + DATA_HEADER_SIZE + (i - 1) \div 8, (i - 1) % 8)
    [] ty.f.key.k = "string" ->
         StringAt(PointerAt(KeysAt + DATA_HEADER_SIZE + 8 * (i - 1)))
    [] OTHER -> buffer[KeysAt + DATA_HEADER_SIZE + i]

WireVal(i) ==
  IF ty.f.val.k = "handle"
  THEN handles[FromLE(SubSeq(buffer, ValsAt + DATA_HEADER_SIZE + 4 * (i - 1) + 1,
                             ValsAt + DATA_HEADER_SIZE + 4 * i)) + 1]
  ELSE buffer[ValsAt + DATA_HEADER_SIZE + i]

\* The message is the one serialized but for the elements of its keys array.
OnlyKeysAltered ==
  /\ alt \in {"none", "poked"}
  /\ LET Same(orig) ==
           /\ SubSeq(buffer, 1, STRUCT_A_SIZE + MAP_SIZE)
                = SubSeq(orig, 1, STRUCT_A_SIZE + MAP_SIZE)
           /\ \A p \in 1..Len(buffer) :
                 buffer[p] # orig[p] =>
                   /\ p > KeysAt + DATA_HEADER_SIZE
                   /\ p <= KeysAt + SizeAt(KeysAt)
     IN  Same(auto_serialize(ty, val).buf)

DuplicateKeys ==
  \E i, j \in 1..CountAt(KeysAt) : i # j /\ WireKey(i) = WireKey(j)

\* C26: a map whose keys array holds a key more than once decodes to Ok. The
\* map returned has one entry for each distinct key of the keys array, with
\* the value paired with the last occurrence of that key, and so fewer
\* entries than the arrays have elements.
C26_DuplicateKeys ==
  (Returned /\ InlineKeys /\ OnlyKeysAltered) =>
    /\ res.kind = "ok"
    /\ Len(res.v.param0) = Cardinality({WireKey(i) : i \in 1..CountAt(KeysAt)})
    /\ \A j \in 1..Len(res.v.param0) :
          \E i \in 1..CountAt(KeysAt) :
             /\ WireKey(i) = res.v.param0[j][1]
             /\ WireVal(i) = res.v.param0[j][2]
             /\ \A l \in (i + 1)..CountAt(KeysAt) : WireKey(l) # WireKey(i)
    /\ DuplicateKeys => Len(res.v.param0) < CountAt(KeysAt)

\* Two entries whose first key was altered to the second: one entry is
\* returned, with the second value.
C26_Witness ==
  /\ pc = "rejected"
  /\ ty = StructA(Map(U8, U8))
  /\ OnlyKeysAltered
  /\ CountAt(KeysAt) = 2
  /\ DuplicateKeys
  /\ val.param0[1][2] # val.param0[2][2]
  /\ res.kind = "ok"
  /\ res.v.param0 = << <<WireKey(2), val.param0[2][2]>> >>

\* The same with handles as values: the handle of the first entry is not in
\* the map returned, and is closed.
C26_WitnessHandle ==
  /\ pc = "rejected"
  /\ ty = StructA(Map(U8, UntypedHandle))
  /\ OnlyKeysAltered
  /\ CountAt(KeysAt) = 2
  /\ DuplicateKeys
  /\ res.kind = "ok"
  /\ res.v.param0 = << <<WireKey(2), handles[2]>> >>
  /\ handles[1] \notin open
\* The bytes a field of the category takes inline and the alignment it is
\* read at, and the place in its region of the field a skip call looked at.
FieldBytes(cat) ==
  CASE cat = "Pointer" -> 8
    [] cat = "Union" -> UNION_SIZE
    [] cat = "Handle" -> 4
    [] cat = "Interface" -> 8

FieldAlign(cat) == IF cat \in {"Pointer", "Union"} THEN 8 ELSE 4

FieldOf(e) ==
  align_bytes(e.pos + (IF e.bit > 0 THEN 1 ELSE 0), FieldAlign(e.cat))

\* C27: a skip_if_null_* call consumes input only when the field is null. On
\* the null sentinel it returns true with the cursor past the whole field; on
\* anything else it returns false with the cursor, byte and bit, where it
\* was, so that the T::decode that follows reads that same field: the next
\* skip call in the region finds the cursor one field further on.
C27_SkipIfNull ==
  (Returned /\ res.kind # "panic") =>
    \A i \in 1..Len(dlog.skips) :
       LET e == dlog.skips[i]
       IN  /\ e.skipped = NullRead(e.cat, e.base + FieldOf(e))
           /\ e.skipped => e.pos1 = FieldOf(e) + FieldBytes(e.cat) /\ e.bit1 = 0
           /\ ~e.skipped => e.pos1 = e.pos /\ e.bit1 = e.bit
           /\ (i < Len(dlog.skips) /\ dlog.skips[i + 1].base = e.base) =>
                 /\ dlog.skips[i + 1].pos = FieldOf(e) + FieldBytes(e.cat)
                 /\ dlog.skips[i + 1].bit = 0

\* A present handle followed by an absent one: the first call returned false
\* where it stood, the handle was then decoded from that field, and the second
\* call skipped the next field.
C27_Witness ==
  /\ pc = "decoded"
  /\ ty = StructA(Vec(Opt(UntypedHandle)))
  /\ Len(dlog.skips) = 2
  /\ ~dlog.skips[1].skipped
  /\ dlog.skips[1].pos1 = DATA_HEADER_SIZE
  /\ dlog.hreads = <<0>>
  /\ dlog.skips[2].skipped
  /\ dlog.skips[2].pos = DATA_HEADER_SIZE + 4
  /\ dlog.skips[2].pos1 = DATA_HEADER_SIZE + 8
  /\ res.kind = "ok"

\* A present union followed by an absent one.
C27_WitnessUnion ==
  /\ pc = "decoded"
  /\ ty = StructA(Vec(Opt(UnionA)))
  /\ Len(dlog.skips) = 2
  /\ ~dlog.skips[1].skipped
  /\ dlog.skips[1].pos1 = DATA_HEADER_SIZE
  /\ dlog.skips[2].skipped
  /\ dlog.skips[2].pos = DATA_HEADER_SIZE + UNION_SIZE
  /\ dlog.skips[2].pos1 = DATA_HEADER_SIZE + 2 * UNION_SIZE
\* The place in the encoder's log of regions of the region at off.
RegionIndex(off) ==
  CHOOSE i \in 1..Len(elog.regions) : elog.regions[i].off = off

\* C28: map encoding keeps the entries paired. The map region holds the keys
\* pointer and then the values pointer; the keys array region is reserved
\* before the values array region; both arrays have as many elements as the
\* map has entries; the key and the value at the same place of the two arrays
\* are those of one entry; and decoding returns each key with its own value.
C28_MapPaired ==
  (pc \in {"message", "decoded"} /\ ~elog.failed /\ ty.f.k = "map") =>
    /\ SizeAt(MapAt) = MAP_SIZE
    /\ \E i, j \in 1..Len(elog.ptrs) :
          /\ i < j
          /\ elog.ptrs[i] = [loc |-> MapAt + DATA_HEADER_SIZE, target |-> KeysAt]
          /\ elog.ptrs[j] = [loc |-> MapAt + DATA_HEADER_SIZE + 8, target |-> ValsAt]
    /\ RegionIndex(MapAt) < RegionIndex(KeysAt)
    /\ RegionIndex(KeysAt) < RegionIndex(ValsAt)
    /\ KeysAt < ValsAt
    /\ CountAt(KeysAt) = Len(val.param0)
    /\ CountAt(ValsAt) = Len(val.param0)
    /\ \A i \in 1..Len(val.param0) :
          /\ WireKey(i) = val.param0[i][1]
          /\ WireVal(i) = val.param0[i][2]
    /\ pc = "decoded" =>
          /\ res.kind = "ok"
          /\ Range(res.v.param0) = Range(val.param0)
          /\ Len(res.v.param0) = Len(val.param0)

\* A map of two entries with string keys and different values, decoded.
C28_Witness ==
  /\ pc = "decoded"
  /\ ty = StructA(Map(Str, U8))
  /\ Len(val.param0) = 2
  /\ val.param0[1][2] # val.param0[2][2]
  /\ CountAt(ValsAt) = 2
  /\ WireKey(2) = val.param0[2][1]
  /\ WireVal(2) = val.param0[2][2]
  /\ RegionIndex(ValsAt) = Len(elog.regions)
  /\ res.kind = "ok"

\* A map of two entries whose values are handles.
C28_WitnessHandles ==
  /\ pc = "decoded"
  /\ ty = StructA(Map(U8, UntypedHandle))
  /\ Len(val.param0) = 2
  /\ WireVal(1) = val.param0[1][2]
  /\ WireVal(2) = val.param0[2][2]
  /\ res.v.param0 = val.param0
\* The message create_request made, and its bytes after the header.
Request == mp.sent.writes[1]
PayloadBytes ==
  SubSeq(Request.buf, align_default(MESSAGE_HEADER_SIZE) + 1, Len(Request.buf))

\* The handle index at place i (from 1) of the handle array the payload's
\* root struct points to.
PayloadHandleIndex(i) ==
  FromLE(SubSeq(PayloadBytes,
                STRUCT_A_SIZE + DATA_HEADER_SIZE + 4 * (i - 1) + 1,
                STRUCT_A_SIZE + DATA_HEADER_SIZE + 4 * i))

\* C29: the buffer create_request returns has compute_size(header) +
\* compute_size(payload) bytes; the header comes first and carries the request
\* id given; the bytes after it are the payload serialized as a message of
\* its own; the handle vector is the header's handles, of which there are
\* none, followed by the payload's, so that each handle index in the payload
\* bytes is the index of that handle in the vector returned.
C29_CreateRequest ==
  (mp.pc \in {"sent", "received"} /\ mp.sent.made = 1) =>
    /\ Len(Request.buf)
         = align_default(MESSAGE_HEADER_SIZE) + compute_size(mp.t, mp.v, DefaultContext)
    /\ FromLE(SubSeq(Request.buf, 1, 4)) = MESSAGE_HEADER_SIZE
    /\ FromLE(SubSeq(Request.buf, 5, 8)) = 0
    /\ FromLE(SubSeq(Request.buf, DATA_HEADER_SIZE + 4 + 1, DATA_HEADER_SIZE + 8))
         = MessageName
    /\ FromLE(SubSeq(Request.buf, MESSAGE_HEADER_SIZE - 8 + 1, MESSAGE_HEADER_SIZE))
         = mp.req_id
    /\ PayloadBytes = auto_serialize(mp.t, mp.v).buf
    /\ Request.handles = HandleSeq(mp.t, mp.v)
    /\ mp.t.f.e.k = "handle" =>
          \A i \in 1..Len(mp.v.param0) :
             /\ PayloadHandleIndex(i) = i - 1
             /\ Request.handles[PayloadHandleIndex(i) + 1] = mp.v.param0[i]

\* A request of three handles with request id 300.
C29_Witness ==
  /\ mp.pc = "sent"
  /\ mp.sent.made = 1
  /\ mp.t = StructA(Arr(UntypedHandle, STRUCT_A_ARITY))
  /\ mp.req_id = 300
  /\ Len(Request.buf) = MESSAGE_HEADER_SIZE + STRUCT_A_SIZE + 24
  /\ Len(Request.handles) = STRUCT_A_ARITY
  /\ PayloadHandleIndex(STRUCT_A_ARITY) = STRUCT_A_ARITY - 1
\* The events of one kind the decoder logged before event i, and the event
\* that is its j-th claim of a region.
EventsBefore(i, what) ==
  Cardinality({k \in 1..(i - 1) : dlog.trace[k].what = what})
ClaimEvent(j) ==
  CHOOSE i \in 1..Len(dlog.trace) :
     dlog.trace[i].what = "claim" /\ EventsBefore(i, "claim") = j - 1

\* The claim that is the map's claim of its values region: the root struct,
\* the map's struct and the keys region are claimed before it, and one region
\* by each key that is a string.
ValsClaim == 4 + (IF ty.f.key.k = "string" THEN CountAt(KeysAt) ELSE 0)

\* C30: a map is decoded in this order: its struct header and both pointers;
\* the claim of the keys region; every key; the claim of the values region
\* and its header; the comparison of the counts; the values. So
\* DifferentSizedArraysInMap is returned with every key decoded, no value
\* decoded and no handle claimed, and a decode that failed before the values
\* region was claimed returns another error.
C30_MapOrder ==
  (Returned /\ ty.f.k = "map") =>
    /\ Len(dlog.attempts) >= 3 =>
         /\ dlog.attempts[2].ok
         /\ dlog.attempts[2].off = MapAt
         /\ SizeAt(MapAt) = MAP_SIZE
         /\ ~NullPointerAt(MapAt + DATA_HEADER_SIZE)
         /\ ~NullPointerAt(MapAt + DATA_HEADER_SIZE + 8)
         /\ dlog.attempts[3].off = Min(KeysAt, Huge)
         /\ EventsBefore(ClaimEvent(3), "decode") = 1
    /\ (Len(dlog.attempts) >= 3 /\ dlog.attempts[3].ok) =>
         /\ Len(dlog.attempts) >= ValsClaim =>
              /\ dlog.attempts[ValsClaim].off = Min(ValsAt, Huge)
              /\ EventsBefore(ClaimEvent(ValsClaim), "decode") = 1 + CountAt(KeysAt)
              /\ EventsBefore(ClaimEvent(ValsClaim), "claim_handle") = 0
         /\ Len(dlog.attempts) < ValsClaim =>
              /\ dlog.maps = <<>>
              /\ res.kind # "ok"
              /\ ~Failed("DifferentSizedArraysInMap")
         /\ dlog.maps # <<>> => dlog.attempts[ValsClaim].ok
         /\ Failed("DifferentSizedArraysInMap") =>
              /\ Len(dlog.attempts) = ValsClaim
              /\ dlog.attempts[ValsClaim].ok
              /\ CountAt(KeysAt) # CountAt(ValsAt)
              /\ Cardinality(DecodeCalls) = 1 + CountAt(KeysAt)
              /\ EventsBefore(Len(dlog.trace), "claim_handle") = 0
              /\ dlog.slots = {}
              /\ dlog.hreads = <<>>
    /\ Failed("DifferentSizedArraysInMap") =>
         Len(dlog.attempts) >= 3 /\ dlog.attempts[3].ok

\* A map of two handles whose values array is headed as one of another count:
\* both keys were decoded, no value was, and no handle was claimed.
C30_Witness ==
  /\ pc = "rejected"
  /\ ty = StructA(Map(U8, UntypedHandle))
  /\ Len(val.param0) = 2
  /\ Len(handles) = 2
  /\ Failed("DifferentSizedArraysInMap")
  /\ Cardinality(DecodeCalls) = 3
  /\ dlog.slots = {}

\* A map of two string keys whose counts differ and whose second key is a
\* null pointer: the error is the key's.
C30_WitnessKeyError ==
  /\ pc = "rejected"
  /\ alt = "map altered"
  /\ ty = StructA(Map(Str, U8))
  /\ Len(val.param0) = 2
  /\ CountAt(KeysAt) = 2
  /\ CountAt(ValsAt) # 2
  /\ NullPointerAt(KeysAt + DATA_HEADER_SIZE + 8)
  /\ Failed("UnexpectedNullPointer")
  /\ Cardinality(DecodeCalls) = 3
  /\ dlog.maps = <<>>
====
